---- MODULE Spec2Model ----
(***************************************************************************)
(* SkillBridge: skill-gap analysis, learning roadmaps and skill            *)
(* combinations, modelled from backend/career/services.py,                 *)
(* backend/learning/{models,views}.py, backend/skills/{models,views}.py    *)
(* and backend/analytics/models.py.                                        *)
(*                                                                         *)
(* Database tables are sets of rows (records).  Python floats that the     *)
(* code computes as (k / n) * 100 are kept as reduced fractions            *)
(* [num, den]; for every n below 400 the float comparisons with 0, 50, 80  *)
(* and 100 agree with the exact ones.                                      *)
(***************************************************************************)
EXTENDS Integers, Naturals, Sequences, FiniteSets, Bags, TLC

VARIABLES
    userSkills,     \* UserSkill rows        [user, skill, status]
    roleRequired,   \* RoleRequiredSkill rows [role, skill, importance]
    gapAnalyses,    \* SkillGapAnalysis rows
    missingSkills,  \* MissingSkill rows, a bag: the rows have no key but their id
    recommended,    \* UserRecommendedRole rows
    roadmaps,       \* LearningRoadmap rows
    roadmapItems,   \* RoadmapItem rows
    nextId,         \* next primary key of the tables that hand out ids
    jobPostings,    \* JobPosting rows       [id, is_active], and for
                    \* load_jobs external_id, source_platform, archived
    jobSkills,      \* JobSkill rows         [job_posting, skill]
    combinations,   \* SkillCombination rows
    roleTitles,     \* Role rows, by the discovery names their title contains
    responses,      \* the quiz responses handed to CareerDiscoveryService
    sortedRoles,    \* what calculate_role_scores returned last
    recommendations, \* what get_recommended_roles returned last
    calc,           \* where a stepwise run of calculate_combinations stands
    seen,           \* what the last read of SkillCombination returned
    site,           \* hh.uz: per professional role, the pages it answers with
    request,        \* the arguments of HHUzScraper.scrape
    scraped,        \* what HHUzScraper.scrape returned
    chat,           \* where a ChatbotService.send_message call stands
    chatSessions,   \* ChatSession rows of the user (their ids)
    chatMessages,   \* ChatMessage rows of the user's session, oldest first
    skillTable,     \* Skill rows, by name, as load_jobs looks them up
    loadLog,        \* per vacancy id, the last vacancy load_jobs has loaded
    workers,        \* requests that run analyze_user_for_role side by side
    lastOp,         \* the operation that completed last, and what it returned
    ops             \* number of operations carried out so far

vars == <<userSkills, roleRequired, gapAnalyses, missingSkills, recommended,
          roadmaps, roadmapItems, nextId, jobPostings, jobSkills,
          combinations, roleTitles, responses, sortedRoles, recommendations,
          calc, seen, site, request, scraped, chat, chatSessions,
          chatMessages, skillTable, loadLog, workers, lastOp, ops>>

careerVars == <<gapAnalyses, missingSkills, recommended>>
jobVars == <<jobPostings, jobSkills, combinations>>
quizVars == <<roleTitles, responses, sortedRoles, recommendations>>
taskVars == <<calc, seen, site, request, scraped, chat, chatSessions,
              chatMessages, skillTable, loadLog, workers>>

----------------------------------------------------------------------------
(* Bounds *)

NumRoles == 2
NumSkills == 3
NumGapSkills == 5
NumJobs == 3
NumJobSkills == 2
MaxItemId == 6
MaxOps == 4
MaxCalls == 2
MaxResponses == 2
NumRunJobs == 2
NumRunSkills == 3
NumScrapeRoles == 2
MaxItemsPerPage == 2
MaxSitePages == 2
MaxVacancies == 3
MaxToolCalls == 2
NumVacancies == 2
MaxBatch == 2
NumWorkers == 2

\* every row of the tables below belongs to one user and no operation reads
\* or writes a row of another user: one user is modelled
Users == {1}
Roles == 1..NumRoles
Skills == 1..NumSkills
GapSkills == 1..NumGapSkills

----------------------------------------------------------------------------
(* Choices of the models *)

SkillStatus == {"not_started", "in_progress", "learned"}
Importance == {"critical", "important", "nice_to_have"}
Priorities == {"high", "medium", "low"}
ItemStatus == {"pending", "in_progress", "completed", "skipped"}

\* Skill.name of the skills of the fixtures; names are unique.  Skill 1 is
\* "Python", 2 "Django", 3 "SQL", 4 "Docker", the further ones "Skill05"...;
\* NameRank is the position of the name in ascending name order
\* (Django < Docker < Python < SQL < Skill05 < ...).
NameRank(s) ==
    IF s = 1 THEN 3
    ELSE IF s = 2 THEN 1
    ELSE IF s = 3 THEN 4
    ELSE IF s = 4 THEN 2
    ELSE s

----------------------------------------------------------------------------
(* Arithmetic helpers *)

RECURSIVE GCD(_, _)
GCD(a, b) == IF b = 0 THEN a ELSE GCD(b, a % b)

\* the float n / d, kept exact
Frac(n, d) == LET g == GCD(n, d) IN [num |-> n \div g, den |-> d \div g]

FracGE(f, t) == f.num >= t * f.den
FracLE(f, t) == f.num <= t * f.den
FracEq(f, t) == f.num = t * f.den

----------------------------------------------------------------------------
(* SkillGapAnalyzer.analyze_user_for_role, the computation *)

\* mutant: skills in progress count as learned
LearnedOrInProgressSkillIds(u) ==
    {us.skill : us \in {x \in userSkills :
                           x.user = u /\ x.status \in {"learned", "in_progress"}}}

\* user_skills: ids of the skills the user has with status 'learned'
LearnedSkillIds(u) ==
    {us.skill : us \in {x \in userSkills : x.user = u /\ x.status = "learned"}}

RequiredRows(r) == {rr \in roleRequired : rr.role = r}
RequiredSkillIds(r) == {rr.skill : rr \in RequiredRows(r)}

MatchingSkills(u, r) == LearnedSkillIds(u) \cap RequiredSkillIds(r)
MissingSkillIds(u, r) == RequiredSkillIds(r) \ LearnedSkillIds(u)

\* mutant: a role without required skills counts as fully matched
MatchPercentageVacuous(matching, required) ==
    IF Cardinality(required) > 0
    THEN Frac(Cardinality(matching) * 100, Cardinality(required))
    ELSE Frac(100, 1)

MatchPercentage(matching, required) ==
    IF Cardinality(required) > 0
    THEN Frac(Cardinality(matching) * 100, Cardinality(required))
    ELSE Frac(0, 1)

\* mutant: the thresholds are exclusive
ReadinessLevelExclusive(mp) ==
    IF ~FracLE(mp, 80) THEN "job_ready"
    ELSE IF ~FracLE(mp, 50) THEN "partially_ready"
    ELSE "not_ready"

ReadinessLevel(mp) ==
    IF FracGE(mp, 80) THEN "job_ready"
    ELSE IF FracGE(mp, 50) THEN "partially_ready"
    ELSE "not_ready"

\* match_percentage, match_percentage * 0.8, match_percentage * 0.6
ReadinessScore(mp) ==
    IF FracGE(mp, 80) THEN mp
    ELSE IF FracGE(mp, 50) THEN Frac(mp.num * 8, mp.den * 10)
    ELSE Frac(mp.num * 6, mp.den * 10)

\* mutant: nice_to_have skills take the weeks of important ones
ImportanceWeeksTwoTiers(importance) ==
    IF importance = "critical" THEN 4 ELSE 2

ImportanceWeeks(importance) ==
    IF importance = "critical" THEN 4
    ELSE IF importance = "important" THEN 2
    ELSE 1

RECURSIVE SumImportanceWeeks(_)
SumImportanceWeeks(rows) ==
    IF rows = {} THEN 0
    ELSE LET rr == CHOOSE x \in rows : TRUE
         IN  ImportanceWeeks(rr.importance) + SumImportanceWeeks(rows \ {rr})

EstimatedWeeks(u, r) ==
    SumImportanceWeeks({rr \in RequiredRows(r) : rr.skill \in MissingSkillIds(u, r)})

PriorityOf(importance) ==
    IF importance = "critical" THEN "high"
    ELSE IF importance = "important" THEN "medium"
    ELSE "low"

LearningWeeks(priority) ==
    IF priority = "high" THEN 4
    ELSE IF priority = "medium" THEN 2
    ELSE 1

----------------------------------------------------------------------------
(* SkillGapAnalyzer.analyze_user_for_role, the persistence *)

ExistingGap(u, r) == {g \in gapAnalyses : g.user = u /\ g.role = r}

\* update_or_create(user, role, defaults): get() raises
\* MultipleObjectsReturned when more than one row matches
GapLookupFails(u, r) == Cardinality(ExistingGap(u, r)) > 1

GapId(u, r) ==
    IF ExistingGap(u, r) = {} THEN nextId.gap
    ELSE (CHOOSE g \in ExistingGap(u, r) : TRUE).id

GapRow(u, r) ==
    LET mp == MatchPercentage(MatchingSkills(u, r), RequiredSkillIds(r))
    IN  [id |-> GapId(u, r), user |-> u, role |-> r,
         overall_match_percentage |-> mp,
         readiness_level |-> ReadinessLevel(mp),
         estimated_learning_time_weeks |-> EstimatedWeeks(u, r)]

\* mutant: create instead of update_or_create
GapAnalysesCreated(u, r) ==
    gapAnalyses \cup {[GapRow(u, r) EXCEPT !.id = nextId.gap]}

GapAnalysesAfter(u, r) == (gapAnalyses \ ExistingGap(u, r)) \cup {GapRow(u, r)}

NewMissingRow(gid, rr) ==
    LET priority == PriorityOf(rr.importance)
    IN  [gap_analysis |-> gid, skill |-> rr.skill, priority |-> priority,
         estimated_learning_weeks |-> LearningWeeks(priority)]

\* mutant: the old rows are not deleted
MissingNotDeleted(gid) == missingSkills

\* gap_analysis.missing_skills.all().delete()
MissingOfOtherAnalyses(gid) ==
    [m \in {x \in DOMAIN missingSkills : x.gap_analysis # gid} |-> missingSkills[m]]

\* the rows that are left, and one create per missing required skill
MissingSkillsAfter(u, r) ==
    MissingOfOtherAnalyses(GapId(u, r))
    (+) SetToBag({NewMissingRow(GapId(u, r), rr) :
            rr \in {x \in RequiredRows(r) : x.skill \in MissingSkillIds(u, r)}})

RecommendedRow(u, r) ==
    LET mp == MatchPercentage(MatchingSkills(u, r), RequiredSkillIds(r))
    IN  [user |-> u, role |-> r, match_percentage |-> mp,
         readiness_score |-> ReadinessScore(mp),
         missing_skills_count |-> Cardinality(MissingSkillIds(u, r)),
         is_active |-> TRUE]

\* unique_together (user, role): at most one row matches
RecommendedAfter(u, r) ==
    {x \in recommended : ~(x.user = u /\ x.role = r)} \cup {RecommendedRow(u, r)}

AnalysisResult(u, r) ==
    LET mp == MatchPercentage(MatchingSkills(u, r), RequiredSkillIds(r))
    IN  [match_percentage |-> mp,
         readiness_level |-> ReadinessLevel(mp),
         readiness_score |-> ReadinessScore(mp),
         matching_skills_count |-> Cardinality(MatchingSkills(u, r)),
         missing_skills_count |-> Cardinality(MissingSkillIds(u, r)),
         estimated_learning_weeks |-> EstimatedWeeks(u, r),
         gap_analysis_id |-> GapId(u, r)]

NoResult == [match_percentage |-> Frac(0, 1), readiness_level |-> "none",
             readiness_score |-> Frac(0, 1), matching_skills_count |-> 0,
             missing_skills_count |-> 0, estimated_learning_weeks |-> 0,
             gap_analysis_id |-> 0]

Op(name, u, r, i, res, rep) ==
    [op |-> name, user |-> u, role |-> r, item |-> i, ret |-> res, repeat |-> rep]

NextGapIds(u, r) ==
    IF ExistingGap(u, r) = {} THEN [nextId EXCEPT !.gap = @ + 1] ELSE nextId

AnalyzeUserForRole(u, r) ==
    /\ IF GapLookupFails(u, r)
       THEN /\ lastOp' = Op("analyze_error", u, r, 0, NoResult, FALSE)
            /\ UNCHANGED <<careerVars, nextId>>
       ELSE /\ gapAnalyses' = GapAnalysesAfter(u, r)
            /\ missingSkills' = MissingSkillsAfter(u, r)
            /\ recommended' = RecommendedAfter(u, r)
            /\ nextId' = NextGapIds(u, r)
            /\ lastOp' = Op("analyze", u, r, 0, AnalysisResult(u, r),
                            lastOp.op = "analyze" /\ lastOp.user = u
                                /\ lastOp.role = r)
    /\ UNCHANGED <<userSkills, roleRequired, roadmaps, roadmapItems, jobVars,
                   quizVars, taskVars>>

----------------------------------------------------------------------------
(* analyze_user_for_role statement by statement, in requests side by side *)

UNCHANGED_BUT_CAREER ==
    UNCHANGED <<userSkills, roleRequired, roadmaps, roadmapItems, jobVars,
                quizVars, calc, seen, site, request, scraped, chat,
                chatSessions, chatMessages, skillTable, loadLog, lastOp>>

Worker(pc, u, r, gap, pending) ==
    [pc |-> pc, user |-> u, role |-> r, gap |-> gap, pending |-> pending]

\* update_or_create, its lookup: select_for_update().get(user, role).  A
\* row that is found stays locked until it is saved, so the update is one
\* step with the lookup; a lookup that finds nothing locks nothing, and the
\* create is a statement of its own; two rows raise MultipleObjectsReturned
AnalyzeGet(w) ==
    LET me == workers[w]
        found == ExistingGap(me.user, me.role)
    IN  /\ me.pc = "start"
        /\ IF Cardinality(found) > 1
           THEN /\ workers' = [workers EXCEPT ![w].pc = "failed"]
                /\ gapAnalyses' = gapAnalyses
           ELSE IF found = {}
           THEN /\ workers' = [workers EXCEPT ![w].pc = "create"]
                /\ gapAnalyses' = gapAnalyses
           ELSE /\ workers' = [workers EXCEPT ![w].pc = "delete",
                                              ![w].gap = GapId(me.user, me.role)]
                /\ gapAnalyses' = GapAnalysesAfter(me.user, me.role)
        /\ UNCHANGED <<missingSkills, recommended, nextId>>
        /\ UNCHANGED_BUT_CAREER

\* the create of update_or_create: no constraint of SkillGapAnalysis stands
\* in the way of a second row of the pair
AnalyzeCreate(w) ==
    LET me == workers[w]
    IN  /\ me.pc = "create"
        /\ gapAnalyses' = gapAnalyses \cup
                              {[GapRow(me.user, me.role) EXCEPT !.id = nextId.gap]}
        /\ nextId' = [nextId EXCEPT !.gap = @ + 1]
        /\ workers' = [workers EXCEPT ![w].pc = "delete", ![w].gap = nextId.gap]
        /\ UNCHANGED <<missingSkills, recommended>>
        /\ UNCHANGED_BUT_CAREER

\* gap_analysis.missing_skills.all().delete(); the loop that follows goes
\* over the required skills that are missing
AnalyzeDelete(w) ==
    LET me == workers[w]
    IN  /\ me.pc = "delete"
        /\ missingSkills' = MissingOfOtherAnalyses(me.gap)
        /\ workers' = [workers EXCEPT
                          ![w].pc = "missing",
                          ![w].pending = {rr \in RequiredRows(me.role) :
                                             rr.skill \in MissingSkillIds(me.user, me.role)}]
        /\ UNCHANGED <<gapAnalyses, recommended, nextId>>
        /\ UNCHANGED_BUT_CAREER

\* MissingSkill.objects.create, one required skill at a time (the rows are
\* a bag, and the order of the loop leaves no trace in it)
AnalyzeCreateMissing(w, rr) ==
    LET me == workers[w]
    IN  /\ me.pc = "missing"
        /\ rr \in me.pending
        /\ missingSkills' = missingSkills (+) SetToBag({NewMissingRow(me.gap, rr)})
        /\ workers' = [workers EXCEPT ![w].pending = @ \ {rr}]
        /\ UNCHANGED <<gapAnalyses, recommended, nextId>>
        /\ UNCHANGED_BUT_CAREER

\* UserRecommendedRole.objects.update_or_create: unique_together (user,
\* role), a create that loses the race is answered by a second lookup
AnalyzeRecommend(w) ==
    LET me == workers[w]
    IN  /\ me.pc = "missing"
        /\ me.pending = {}
        /\ recommended' = RecommendedAfter(me.user, me.role)
        /\ workers' = [workers EXCEPT ![w].pc = "done"]
        /\ UNCHANGED <<gapAnalyses, missingSkills, nextId>>
        /\ UNCHANGED_BUT_CAREER

----------------------------------------------------------------------------
(* UserSkillViewSet: create, update, mark_learned, mark_in_progress, destroy *)

UserSkillRow(u, s) == {us \in userSkills : us.user = u /\ us.skill = s}

SetUserSkillStatus(u, s, st) ==
    (userSkills \ UserSkillRow(u, s)) \cup {[user |-> u, skill |-> s, status |-> st]}

UserSkillOp == Op("user_skill", 0, 0, 0, NoResult, FALSE)

UNCHANGED_BUT_USERSKILLS ==
    UNCHANGED <<roleRequired, careerVars, roadmaps, roadmapItems, nextId, jobVars,
                quizVars, taskVars>>

\* 400 when the user already has the skill
UserSkillCreate(u, s, st) ==
    /\ UserSkillRow(u, s) = {}
    /\ userSkills' = userSkills \cup {[user |-> u, skill |-> s, status |-> st]}
    /\ lastOp' = UserSkillOp
    /\ UNCHANGED_BUT_USERSKILLS

\* every branch of update() ends with the row holding the new status
UserSkillUpdate(u, s, st) ==
    /\ UserSkillRow(u, s) # {}
    /\ userSkills' = SetUserSkillStatus(u, s, st)
    /\ lastOp' = UserSkillOp
    /\ UNCHANGED_BUT_USERSKILLS

UserSkillMarkLearned(u, s) ==
    /\ UserSkillRow(u, s) # {}
    /\ userSkills' = SetUserSkillStatus(u, s, "learned")
    /\ lastOp' = UserSkillOp
    /\ UNCHANGED_BUT_USERSKILLS

UserSkillMarkInProgress(u, s) ==
    /\ UserSkillRow(u, s) # {}
    /\ userSkills' = SetUserSkillStatus(u, s, "in_progress")
    /\ lastOp' = UserSkillOp
    /\ UNCHANGED_BUT_USERSKILLS

UserSkillDestroy(u, s) ==
    /\ UserSkillRow(u, s) # {}
    /\ userSkills' = userSkills \ UserSkillRow(u, s)
    /\ lastOp' = UserSkillOp
    /\ UNCHANGED_BUT_USERSKILLS

----------------------------------------------------------------------------
(* RoadmapGenerator.generate_roadmap *)

ExistingRoadmap(u, r) == {rm \in roadmaps : rm.user = u /\ rm.role = r}

\* mutant: create instead of get_or_create
RoadmapAlwaysCreated(u, r) == TRUE

\* get_or_create(user, role, defaults)
RoadmapCreated(u, r) == ExistingRoadmap(u, r) = {}

RoadmapId(u, r) ==
    IF RoadmapCreated(u, r) THEN nextId.roadmap
    ELSE (CHOOSE rm \in ExistingRoadmap(u, r) : TRUE).id

\* mutant: only the pending items are deleted
KeptItemsNotPending(u, r) ==
    IF RoadmapCreated(u, r) THEN roadmapItems
    ELSE {it \in roadmapItems :
             it.roadmap # RoadmapId(u, r) \/ it.status # "pending"}

\* if not created: roadmap.roadmap_items.all().delete()
KeptItems(u, r) ==
    IF RoadmapCreated(u, r) THEN roadmapItems
    ELSE {it \in roadmapItems : it.roadmap # RoadmapId(u, r)}

\* position of the priority strings in ascending string order
PriorityStringRank(p) ==
    IF p = "high" THEN 1
    ELSE IF p = "low" THEN 2
    ELSE 3

\* order_by('-priority', 'skill__name')
OrderedBefore(a, b) ==
    \/ PriorityStringRank(a.priority) > PriorityStringRank(b.priority)
    \/ /\ PriorityStringRank(a.priority) = PriorityStringRank(b.priority)
       /\ NameRank(a.skill) < NameRank(b.skill)

RECURSIVE OrderRows(_)
OrderRows(rows) ==
    IF rows = {} THEN <<>>
    ELSE LET first == CHOOSE x \in rows : \A y \in rows : ~OrderedBefore(y, x)
         IN  <<first>> \o OrderRows(rows \ {first})

\* gap_analysis_obj.missing_skills, read after the analysis of the same call
OrderedMissingSkills(u, r) ==
    OrderRows({m \in DOMAIN MissingSkillsAfter(u, r) : m.gap_analysis = GapId(u, r)})

ItemPriority(priority) ==
    IF priority = "high" THEN "high"
    ELSE IF priority = "medium" THEN "medium"
    ELSE "low"

\* mutant: the sequence counter is not advanced
NewItemsNotNumbered(u, r) ==
    LET seq == OrderedMissingSkills(u, r)
    IN  {[id |-> nextId.item + i - 1,
          roadmap |-> RoadmapId(u, r),
          skill |-> seq[i].skill,
          sequence_order |-> 1,
          status |-> "pending",
          priority |-> ItemPriority(seq[i].priority),
          estimated_duration_weeks |-> seq[i].estimated_learning_weeks] :
            i \in 1..Len(seq)}

NewItems(u, r) ==
    LET seq == OrderedMissingSkills(u, r)
    IN  {[id |-> nextId.item + i - 1,
          roadmap |-> RoadmapId(u, r),
          skill |-> seq[i].skill,
          sequence_order |-> i,
          status |-> "pending",
          priority |-> ItemPriority(seq[i].priority),
          estimated_duration_weeks |-> seq[i].estimated_learning_weeks] :
            i \in 1..Len(seq)}

\* estimated_completion_date is kept as the number of days after the day of
\* the generation: timedelta(weeks = total_weeks)
\* mutant: timedelta(days = total_weeks)
RoadmapRowDays(u, r) ==
    LET old == IF RoadmapCreated(u, r)
               THEN [is_active |-> TRUE, completion_percentage |-> Frac(0, 1)]
               ELSE CHOOSE rm \in ExistingRoadmap(u, r) : TRUE
    IN  [id |-> RoadmapId(u, r), user |-> u, role |-> r,
         is_active |-> old.is_active,
         completion_percentage |-> old.completion_percentage,
         estimated_completion_date |-> EstimatedWeeks(u, r)]

RoadmapRow(u, r) ==
    LET old == IF RoadmapCreated(u, r)
               THEN [is_active |-> TRUE, completion_percentage |-> Frac(0, 1)]
               ELSE CHOOSE rm \in ExistingRoadmap(u, r) : TRUE
    IN  [id |-> RoadmapId(u, r), user |-> u, role |-> r,
         is_active |-> old.is_active,
         completion_percentage |-> old.completion_percentage,
         estimated_completion_date |-> 7 * EstimatedWeeks(u, r)]

GenerateRoadmap(u, r) ==
    /\ nextId.item + Len(OrderedMissingSkills(u, r)) - 1 <= MaxItemId
    /\ IF GapLookupFails(u, r)
       THEN /\ lastOp' = Op("generate_error", u, r, 0, NoResult, FALSE)
            /\ UNCHANGED <<careerVars, roadmaps, roadmapItems, nextId>>
       ELSE /\ gapAnalyses' = GapAnalysesAfter(u, r)
            /\ missingSkills' = MissingSkillsAfter(u, r)
            /\ recommended' = RecommendedAfter(u, r)
            /\ roadmaps' = (roadmaps \ ExistingRoadmap(u, r)) \cup {RoadmapRow(u, r)}
            /\ roadmapItems' = KeptItems(u, r) \cup NewItems(u, r)
            /\ nextId' = [NextGapIds(u, r) EXCEPT
                            !.roadmap = IF RoadmapCreated(u, r) THEN @ + 1 ELSE @,
                            !.item = @ + Len(OrderedMissingSkills(u, r))]
            /\ lastOp' = Op("generate", u, r, 0, AnalysisResult(u, r),
                            ~RoadmapCreated(u, r))
    /\ UNCHANGED <<userSkills, roleRequired, jobVars, quizVars, taskVars>>

----------------------------------------------------------------------------
(* A write that raises inside analyze_user_for_role or generate_roadmap.
   Neither method opens a transaction, and the views of career/views.py that
   call them open none: the writes made before the one that raises stay. *)

\* position of the importance strings in ascending string order
ImportanceStringRank(i) ==
    IF i = "critical" THEN 1
    ELSE IF i = "important" THEN 2
    ELSE 3

\* RoleRequiredSkill.Meta.ordering = ['importance', 'skill__name']
RequiredBefore(a, b) ==
    \/ ImportanceStringRank(a.importance) < ImportanceStringRank(b.importance)
    \/ /\ ImportanceStringRank(a.importance) = ImportanceStringRank(b.importance)
       /\ NameRank(a.skill) < NameRank(b.skill)

RECURSIVE OrderRequired(_)
OrderRequired(rows) ==
    IF rows = {} THEN <<>>
    ELSE LET first == CHOOSE x \in rows : \A y \in rows : ~RequiredBefore(y, x)
         IN  <<first>> \o OrderRequired(rows \ {first})

\* the required rows the loop creates a MissingSkill row for, in loop order
MissingRequired(u, r) ==
    OrderRequired({x \in RequiredRows(r) : x.skill \in MissingSkillIds(u, r)})

\* the writes of analyze_user_for_role: update_or_create of the analysis,
\* delete of its MissingSkill rows, one create per missing skill,
\* update_or_create of the recommended role
AnalyzeWrites(u, r) == 3 + Len(MissingRequired(u, r))

\* the tables once the first done writes are made
GapAnalysesAfterWrites(u, r, done) ==
    IF done >= 1 THEN GapAnalysesAfter(u, r) ELSE gapAnalyses

\* the MissingSkill rows created by the first done writes
MissingCreated(u, r, done) ==
    IF done - 2 > Len(MissingRequired(u, r)) THEN Len(MissingRequired(u, r))
    ELSE done - 2

MissingSkillsAfterWrites(u, r, done) ==
    IF done < 2 THEN missingSkills
    ELSE MissingOfOtherAnalyses(GapId(u, r))
         (+) SetToBag({NewMissingRow(GapId(u, r), MissingRequired(u, r)[i]) :
                 i \in 1..MissingCreated(u, r, done)})

RecommendedAfterWrites(u, r, done) ==
    IF done >= AnalyzeWrites(u, r) THEN RecommendedAfter(u, r) ELSE recommended

GapIdsAfterWrites(u, r, done) ==
    IF done >= 1 THEN NextGapIds(u, r) ELSE nextId

\* write number done + 1 raises a database error, which the method lets through
AnalyzeFails(u, r, done) ==
    /\ ~GapLookupFails(u, r)
    /\ done \in 0..(AnalyzeWrites(u, r) - 1)
    /\ gapAnalyses' = GapAnalysesAfterWrites(u, r, done)
    /\ missingSkills' = MissingSkillsAfterWrites(u, r, done)
    /\ recommended' = RecommendedAfterWrites(u, r, done)
    /\ nextId' = GapIdsAfterWrites(u, r, done)
    /\ lastOp' = Op("analyze_failed", u, r, done, NoResult, FALSE)
    /\ UNCHANGED <<userSkills, roleRequired, roadmaps, roadmapItems, jobVars,
                   quizVars, taskVars>>

\* the writes of generate_roadmap after its analysis: get_or_create of the
\* roadmap, delete of its items when it existed, one create per missing
\* skill, roadmap.save()
DeleteWrites(u, r) == IF RoadmapCreated(u, r) THEN 0 ELSE 1

GenerateWrites(u, r) ==
    AnalyzeWrites(u, r) + 1 + DeleteWrites(u, r)
        + Len(OrderedMissingSkills(u, r)) + 1

\* the items created by the first done writes
ItemsCreated(u, r, done) ==
    LET k == done - AnalyzeWrites(u, r) - 1 - DeleteWrites(u, r)
    IN  IF k < 0 THEN 0
        ELSE IF k > Len(OrderedMissingSkills(u, r))
             THEN Len(OrderedMissingSkills(u, r))
             ELSE k

\* a roadmap that get_or_create made has no estimated_completion_date (here
\* -1) until roadmap.save()
RoadmapsAfterWrites(u, r, done) ==
    IF done >= AnalyzeWrites(u, r) + 1 /\ RoadmapCreated(u, r)
    THEN roadmaps \cup {[RoadmapRow(u, r) EXCEPT !.estimated_completion_date = -1]}
    ELSE roadmaps

ItemsAfterWrites(u, r, done) ==
    IF done < AnalyzeWrites(u, r) + 1 + DeleteWrites(u, r) THEN roadmapItems
    ELSE KeptItems(u, r)
         \cup {it \in NewItems(u, r) : it.sequence_order <= ItemsCreated(u, r, done)}

GenerateFails(u, r, done) ==
    /\ ~GapLookupFails(u, r)
    /\ done \in 0..(GenerateWrites(u, r) - 1)
    /\ nextId.item + ItemsCreated(u, r, done) - 1 <= MaxItemId
    /\ gapAnalyses' = GapAnalysesAfterWrites(u, r, done)
    /\ missingSkills' = MissingSkillsAfterWrites(u, r, done)
    /\ recommended' = RecommendedAfterWrites(u, r, done)
    /\ roadmaps' = RoadmapsAfterWrites(u, r, done)
    /\ roadmapItems' = ItemsAfterWrites(u, r, done)
    /\ nextId' = [GapIdsAfterWrites(u, r, done) EXCEPT
                    !.roadmap = IF done >= AnalyzeWrites(u, r) + 1
                                   /\ RoadmapCreated(u, r)
                                THEN @ + 1 ELSE @,
                    !.item = @ + ItemsCreated(u, r, done)]
    /\ lastOp' = Op("generate_failed", u, r, done, NoResult, FALSE)
    /\ UNCHANGED <<userSkills, roleRequired, jobVars, quizVars, taskVars>>

----------------------------------------------------------------------------
(* RoadmapItemViewSet: start, complete, reset, partial_update;
   RoadmapItem.mark_completed *)

ItemsOf(rid) == {it \in roadmapItems : it.roadmap = rid}

\* LearningRoadmap.update_completion_percentage, on the items in items
CompletionPercentage(items) ==
    IF Cardinality(items) = 0 THEN Frac(0, 1)
    ELSE Frac(Cardinality({it \in items : it.status = "completed"}) * 100,
              Cardinality(items))

ItemsWithStatus(it, st) == (roadmapItems \ {it}) \cup {[it EXCEPT !.status = st]}

RoadmapsWithCompletion(rid, items) ==
    {IF rm.id = rid
     THEN [rm EXCEPT !.completion_percentage = CompletionPercentage(items)]
     ELSE rm : rm \in roadmaps}

UNCHANGED_BUT_ROADMAP ==
    UNCHANGED <<roleRequired, careerVars, nextId, jobVars, quizVars, taskVars>>

\* 400 unless the item is pending
ItemStart(it) ==
    /\ it.status = "pending"
    /\ roadmapItems' = ItemsWithStatus(it, "in_progress")
    /\ roadmaps' = RoadmapsWithCompletion(it.roadmap,
                       {x \in ItemsWithStatus(it, "in_progress") : x.roadmap = it.roadmap})
    /\ lastOp' = Op("start", 0, 0, it.id, NoResult, FALSE)
    /\ UNCHANGED userSkills
    /\ UNCHANGED_BUT_ROADMAP

RoadmapOwner(rid) == (CHOOSE rm \in roadmaps : rm.id = rid).user

\* actual_duration_weeks as the request carries it: a JSON number, or text
\* (a form field, a JSON string); a missing or empty one is answered 400
DurationInputs == {"number", "text"}

\* actual_duration / 52 raises TypeError on text.  Otherwise
\* UserSkill.objects.update_or_create(user, skill, defaults) with defaults
\* that name no field of UserSkill (proficiency_level, years_of_experience,
\* is_primary, last_used_date): the creation raises FieldError
CompleteRaises(it, duration) ==
    \/ duration = "text"
    \/ UserSkillRow(RoadmapOwner(it.roadmap), it.skill) = {}

\* 400 unless the item is pending or in progress and actual_duration_weeks
\* is given; the item is saved before the UserSkill is touched.  An existing
\* UserSkill row gets the unknown attributes and is saved as it was; when
\* the view raises, the completion percentage is not brought up to date.
ItemComplete(it, duration) ==
    /\ it.status \in {"pending", "in_progress"}
    /\ roadmapItems' = ItemsWithStatus(it, "completed")
    /\ IF CompleteRaises(it, duration)
       THEN /\ roadmaps' = roadmaps
            /\ lastOp' = Op("complete_error", 0, 0, it.id, NoResult, FALSE)
       ELSE /\ roadmaps' = RoadmapsWithCompletion(it.roadmap,
                       {x \in ItemsWithStatus(it, "completed") : x.roadmap = it.roadmap})
            /\ lastOp' = Op("complete", 0, 0, it.id, NoResult, FALSE)
    /\ UNCHANGED userSkills
    /\ UNCHANGED_BUT_ROADMAP

\* 400 when the item is completed
ItemReset(it) ==
    /\ it.status # "completed"
    /\ roadmapItems' = ItemsWithStatus(it, "pending")
    /\ roadmaps' = RoadmapsWithCompletion(it.roadmap,
                       {x \in ItemsWithStatus(it, "pending") : x.roadmap = it.roadmap})
    /\ lastOp' = Op("reset", 0, 0, it.id, NoResult, FALSE)
    /\ UNCHANGED userSkills
    /\ UNCHANGED_BUT_ROADMAP

\* the columns of RoadmapItem, and the fields RoadmapItemUpdateSerializer names
RoadmapItemFields ==
    {"id", "roadmap", "skill", "sequence_order", "status", "priority",
     "estimated_duration_weeks", "started_date", "completed_date"}

UpdateSerializerFields == {"status", "notes", "actual_duration_weeks"}

\* a ModelSerializer that names a field its model has not raises
\* ImproperlyConfigured as soon as its fields are built
UpdateSerializerRaises == ~(UpdateSerializerFields \subseteq RoadmapItemFields)

\* validate_status: the transitions the serializer lets through
ValidTransitions(current_status) ==
    IF current_status = "pending" THEN {"in_progress"}
    ELSE IF current_status = "in_progress" THEN {"completed", "pending"}
    ELSE {}

\* PATCH /roadmap-items/{id}/ with a status: is_valid builds the fields first
ItemPartialUpdate(it, value) ==
    /\ IF UpdateSerializerRaises
       THEN /\ roadmapItems' = roadmapItems
            /\ lastOp' = Op("partial_update_error", 0, 0, it.id, NoResult, FALSE)
       ELSE /\ value \in ValidTransitions(it.status)
            /\ roadmapItems' = ItemsWithStatus(it, value)
            /\ lastOp' = Op("partial_update", 0, 0, it.id, NoResult, FALSE)
    /\ UNCHANGED <<userSkills, roadmaps>>
    /\ UNCHANGED_BUT_ROADMAP

\* mutant: the existing UserSkill is left as it is
UserSkillsUntouched(u, s) == userSkills

\* RoadmapItem.mark_completed, the UserSkill part: the row is marked learned,
\* or created learned
UserSkillsAfterCompletion(u, s) ==
    IF UserSkillRow(u, s) # {}
    THEN SetUserSkillStatus(u, s, "learned")
    ELSE userSkills \cup {[user |-> u, skill |-> s, status |-> "learned"]}

\* RoadmapItem.mark_completed (the admin action calls it on any item)
ItemMarkCompleted(it) ==
    /\ roadmapItems' = ItemsWithStatus(it, "completed")
    /\ userSkills' = UserSkillsAfterCompletion(RoadmapOwner(it.roadmap), it.skill)
    /\ roadmaps' = RoadmapsWithCompletion(it.roadmap,
                       {x \in ItemsWithStatus(it, "completed") : x.roadmap = it.roadmap})
    /\ lastOp' = Op("mark_completed", 0, 0, it.id, NoResult, FALSE)
    /\ UNCHANGED_BUT_ROADMAP

----------------------------------------------------------------------------
(* LearningRoadmapViewSet: create, activate, deactivate *)

UNCHANGED_BUT_ROADMAPS ==
    UNCHANGED <<userSkills, roleRequired, careerVars, roadmapItems, jobVars,
                quizVars, taskVars>>

\* POST /roadmaps/ with role_id and is_active (True when left out); user is
\* read-only in the serializer, so no validator looks at unique_together
\* and a second row of the pair is refused by the database (IntegrityError).
\* The new row has no estimated_completion_date (here -1).
RoadmapCreate(u, r, is_active) ==
    /\ IF ExistingRoadmap(u, r) # {}
       THEN /\ roadmaps' = roadmaps
            /\ nextId' = nextId
            /\ lastOp' = Op("roadmap_create_error", u, r, 0, NoResult, FALSE)
       ELSE /\ roadmaps' = roadmaps \cup
                   {[id |-> nextId.roadmap, user |-> u, role |-> r,
                     is_active |-> is_active,
                     completion_percentage |-> Frac(0, 1),
                     estimated_completion_date |-> -1]}
            /\ nextId' = [nextId EXCEPT !.roadmap = @ + 1]
            /\ lastOp' = Op("roadmap_create", u, r, 0, NoResult, FALSE)
    /\ UNCHANGED_BUT_ROADMAPS

\* LearningRoadmap.objects.filter(user = request.user).update(is_active = False)
OthersDeactivated(rm) ==
    {IF x.user = rm.user THEN [x EXCEPT !.is_active = FALSE] ELSE x :
        x \in roadmaps}

\* POST /roadmaps/{id}/activate/
RoadmapActivate(rm) ==
    /\ roadmaps' = (OthersDeactivated(rm) \ {y \in OthersDeactivated(rm) : y.id = rm.id})
                       \cup {[rm EXCEPT !.is_active = TRUE]}
    /\ lastOp' = Op("activate", rm.user, rm.role, rm.id, NoResult, FALSE)
    /\ UNCHANGED nextId
    /\ UNCHANGED_BUT_ROADMAPS

\* POST /roadmaps/{id}/deactivate/
RoadmapDeactivate(rm) ==
    /\ roadmaps' = (roadmaps \ {rm}) \cup {[rm EXCEPT !.is_active = FALSE]}
    /\ lastOp' = Op("deactivate", rm.user, rm.role, rm.id, NoResult, FALSE)
    /\ UNCHANGED nextId
    /\ UNCHANGED_BUT_ROADMAPS

----------------------------------------------------------------------------
(* SkillCombination.calculate_combinations *)

ActiveJobs == {j.id : j \in {x \in jobPostings : x.is_active}}

\* job.job_skills.values_list('skill_id'); unique_together (job_posting, skill)
JobSkillIds(j) == {js.skill : js \in {x \in jobSkills : x.job_posting = j}}

Min(a, b) == IF a <= b THEN a ELSE b
Max(a, b) == IF a >= b THEN a ELSE b

\* mutant: the pair is keyed in the order the job lists its skills
PairsOfJobUnordered(j) ==
    {<<a, b>> : a, b \in JobSkillIds(j)} \ {<<a, a>> : a \in JobSkillIds(j)}

\* the keys one job adds one to: a pair for every two of its skill rows
PairsOfJob(j) ==
    {<<Min(a, b), Max(a, b)>> : a, b \in JobSkillIds(j)} \
    {<<a, a>> : a \in JobSkillIds(j)}

PairKeys == UNION {PairsOfJob(j) : j \in ActiveJobs}

\* mutant: inactive job postings are counted as well
PairCountAllJobs(key) ==
    Cardinality({j \in {x.id : x \in jobPostings} : key \in PairsOfJob(j)})

PairCount(key) == Cardinality({j \in ActiveJobs : key \in PairsOfJob(j)})

MinCoOccurrence == 2

\* JobSkill.objects.filter(skill = skill).count(): the links of every job
SkillJobs(s) == Cardinality({js \in jobSkills : js.skill = s})

\* mutant: the denominator is the symmetric difference, not the union
CorrelationSymmetricDifference(key) ==
    IF SkillJobs(key[1]) > 0 /\ SkillJobs(key[2]) > 0
    THEN [num |-> PairCount(key),
          den |-> SkillJobs(key[1]) + SkillJobs(key[2]) - 2 * PairCount(key)]
    ELSE [num |-> 0, den |-> 1]

Correlation(key) ==
    IF SkillJobs(key[1]) > 0 /\ SkillJobs(key[2]) > 0
    THEN [num |-> PairCount(key),
          den |-> SkillJobs(key[1]) + SkillJobs(key[2]) - PairCount(key)]
    ELSE [num |-> 0, den |-> 1]

CombinationRows ==
    {[skill_1 |-> key[1], skill_2 |-> key[2],
      co_occurrence_count |-> PairCount(key),
      correlation_score |-> Correlation(key)] :
        key \in {k \in PairKeys : PairCount(k) >= MinCoOccurrence}}

\* mutant: the old rows are not deleted
CombinationsNotCleared == combinations \cup CombinationRows

\* cls.objects.all().delete(), then the rows of this run
CombinationsAfter == (combinations \ combinations) \cup CombinationRows

CalculateCombinations ==
    /\ combinations' = CombinationsAfter
    /\ lastOp' = Op("calculate_combinations", 0, 0, 0,
                    [NoResult EXCEPT !.gap_analysis_id = Cardinality(CombinationRows)],
                    lastOp.op = "calculate_combinations")
    /\ UNCHANGED <<userSkills, roleRequired, careerVars, roadmaps, roadmapItems,
                   nextId, jobPostings, jobSkills, quizVars, taskVars>>

----------------------------------------------------------------------------
(* calculate_combinations statement by statement, and SkillViewSet.related
   reading the table between its statements *)

UNCHANGED_BUT_COMBINATIONS ==
    UNCHANGED <<userSkills, roleRequired, careerVars, roadmaps, roadmapItems,
                nextId, jobPostings, jobSkills, quizVars, site, request,
                scraped, chat, chatSessions, chatMessages, skillTable, loadLog,
                workers>>

\* mutant: the old rows are kept when the run begins
RowsKept == combinations

\* cls.objects.all().delete()
RowsDeleted == {}

\* the dict combinations after the loop over the active jobs
CombinationsDict == {[key |-> k, count |-> PairCount(k)] : k \in PairKeys}

\* the delete, then the loop that counts the pairs: the loop writes nothing
CalcBegin ==
    /\ calc.pc = "idle"
    /\ combinations' = RowsDeleted
    /\ calc' = [pc |-> "creating", combinations |-> CombinationsDict,
                created_count |-> 0]
    /\ UNCHANGED <<seen, lastOp>>
    /\ UNCHANGED_BUT_COMBINATIONS

\* the row of one entry of the dict, its score from the JobSkill counts read
\* when the row is created
CombinationRow(e) ==
    [skill_1 |-> e.key[1], skill_2 |-> e.key[2],
     co_occurrence_count |-> e.count,
     correlation_score |->
        IF SkillJobs(e.key[1]) > 0 /\ SkillJobs(e.key[2]) > 0
        THEN [num |-> e.count,
              den |-> SkillJobs(e.key[1]) + SkillJobs(e.key[2]) - e.count]
        ELSE [num |-> 0, den |-> 1]]

\* one turn of the loop over combinations.items(); the dict yields its
\* entries in the order the jobs and their links were read, which no
\* ordering of the queries fixes: every order is taken
CalcCreate(e) ==
    /\ calc.pc = "creating"
    /\ e \in calc.combinations
    /\ calc' = [calc EXCEPT !.combinations = @ \ {e},
                            !.created_count =
                                IF e.count >= MinCoOccurrence THEN @ + 1 ELSE @]
    /\ combinations' = IF e.count >= MinCoOccurrence
                       THEN combinations \cup {CombinationRow(e)}
                       ELSE combinations
    /\ UNCHANGED <<seen, lastOp>>
    /\ UNCHANGED_BUT_COMBINATIONS

\* return created_count
CalcReturn ==
    /\ calc.pc = "creating"
    /\ calc.combinations = {}
    /\ calc' = [calc EXCEPT !.pc = "done"]
    /\ lastOp' = Op("calculate_combinations", 0, 0, 0,
                    [NoResult EXCEPT !.gap_analysis_id = calc.created_count],
                    FALSE)
    /\ UNCHANGED <<combinations, seen>>
    /\ UNCHANGED_BUT_COMBINATIONS

RelatedLimit == 10

RowsOfSkill(s) == {c \in combinations : c.skill_1 = s \/ c.skill_2 = s}

\* order_by('-co_occurrence_count')[:10]: any ten rows none of which has a
\* smaller count than a row left out
TopRows(rows, n) ==
    IF Cardinality(rows) <= n THEN {rows}
    ELSE {S \in SUBSET rows :
             /\ Cardinality(S) = n
             /\ \A a \in S, b \in rows \ S :
                    a.co_occurrence_count >= b.co_occurrence_count}

\* GET /skills/{id}/related/: one query, at any point of a run
Related(s) ==
    /\ \E rows \in TopRows(RowsOfSkill(s), RelatedLimit) :
          seen' = [pc |-> calc.pc, skill |-> s, rows |-> rows]
    /\ UNCHANGED <<calc, combinations, lastOp>>
    /\ UNCHANGED_BUT_COMBINATIONS

----------------------------------------------------------------------------
(* HHUzScraper.scrape, _scrape_role *)

MAX_PAGES_PER_ROLE == 20

\* self.get('/vacancies', page): not ok when get returns None, else the
\* items of the page; a page the site has not got has no items.  An item is
\* "ok" when it has an id and _get_vacancy_details returns its vacancy,
\* "none" when it has no id or the details are not to be had.
Response(role_id, page) ==
    IF page + 1 <= Len(site[role_id]) THEN site[role_id][page + 1]
    ELSE [ok |-> TRUE, items |-> <<>>]

\* max_vacancies None or 0: no limit
Reached(vacancies, max_vacancies) ==
    max_vacancies > 0 /\ Len(vacancies) >= max_vacancies

\* the loop over the items of one page, from item i on
RECURSIVE ScrapeItems(_, _, _, _, _, _)
ScrapeItems(role_id, page, items, i, vacancies, max_vacancies) ==
    IF i > Len(items) THEN [vacancies |-> vacancies, returned |-> FALSE]
    ELSE IF items[i] = "ok"
         THEN LET appended == Append(vacancies, <<role_id, page, i>>)
              IN  IF Reached(appended, max_vacancies)
                  THEN [vacancies |-> appended, returned |-> TRUE]
                  ELSE ScrapeItems(role_id, page, items, i + 1, appended,
                                   max_vacancies)
         ELSE ScrapeItems(role_id, page, items, i + 1, vacancies, max_vacancies)

\* while page < MAX_PAGES_PER_ROLE
RECURSIVE ScrapeRoleFrom(_, _, _, _)
ScrapeRoleFrom(role_id, page, vacancies, max_vacancies) ==
    IF page >= MAX_PAGES_PER_ROLE THEN vacancies
    ELSE LET response == Response(role_id, page)
         IN  IF ~response.ok THEN vacancies
             ELSE IF response.items = <<>> THEN vacancies
             ELSE LET r == ScrapeItems(role_id, page, response.items, 1,
                                       vacancies, max_vacancies)
                  IN  IF r.returned THEN r.vacancies
                      ELSE ScrapeRoleFrom(role_id, page + 1, r.vacancies,
                                          max_vacancies)

\* _scrape_role(role_id, max_vacancies): its own list, its own count
ScrapeRole(role_id, max_vacancies) ==
    ScrapeRoleFrom(role_id, 0, <<>>, max_vacancies)

\* the loop over professional_roles, from role k on
RECURSIVE ScrapeFrom(_, _, _, _)
ScrapeFrom(professional_roles, k, all_vacancies, max_vacancies) ==
    IF k > Len(professional_roles) THEN all_vacancies
    ELSE LET extended == all_vacancies \o
                             ScrapeRole(professional_roles[k], max_vacancies)
         IN  IF Reached(extended, max_vacancies) THEN extended
             ELSE ScrapeFrom(professional_roles, k + 1, extended, max_vacancies)

Scrape ==
    /\ ~scraped.done
    /\ scraped' = [done |-> TRUE,
                   vacancies |-> ScrapeFrom(request.professional_roles, 1, <<>>,
                                            request.max_vacancies)]
    /\ UNCHANGED <<userSkills, roleRequired, careerVars, roadmaps, roadmapItems,
                   nextId, jobVars, quizVars, calc, seen, site, request, chat,
                   chatSessions, chatMessages, skillTable, loadLog, workers,
                   lastOp>>

----------------------------------------------------------------------------
(* ChatbotService.send_message *)

max_iterations == 5

\* a ChatMessage row: message_text by its kind, context_used
ChatMessage(sender_type, message_text, context_used) ==
    [sender_type |-> sender_type, message_text |-> message_text,
     context_used |-> context_used]

UNCHANGED_BUT_CHAT ==
    UNCHANGED <<userSkills, roleRequired, careerVars, roadmaps, roadmapItems,
                nextId, jobVars, quizVars, calc, seen, site, request, scraped,
                skillTable, loadLog, workers, lastOp>>

\* get_or_create_session: the active session, or a new one
SessionOf == IF chatSessions # {} THEN CHOOSE x \in chatSessions : TRUE ELSE 1

\* up to the try: the session, the user's message saved, the messages built
SendMessage ==
    /\ chat.pc = "idle"
    /\ chatSessions' = chatSessions \cup {SessionOf}
    /\ chatMessages' = Append(chatMessages, ChatMessage("user", "text", <<>>))
    /\ chat' = [pc |-> "loop", session |-> SessionOf,
                before |-> Len(chatMessages), iteration |-> 0,
                llm_calls |-> 0, tools_used_list |-> <<>>]
    /\ UNCHANGED_BUT_CHAT

\* the tools of a round that were executed before the call that raises
\* (tool_args that are no dict, a result json.dumps cannot write; the list
\* is not saved on that path)
RECURSIVE ToolsExecuted(_)
ToolsExecuted(tool_calls) ==
    IF tool_calls = <<>> \/ Head(tool_calls).outcome = "raises" THEN <<>>
    ELSE <<Head(tool_calls).name>> \o ToolsExecuted(Tail(tool_calls))

ToolRaises(tool_calls) ==
    \E i \in 1..Len(tool_calls) : tool_calls[i].outcome = "raises"

\* mutant: the exception leaves send_message without a bot message
ExceptNothing(messages) == messages

\* except Exception: the apology is saved as the bot's message
Except(messages) == Append(messages, ChatMessage("bot", "error", <<>>))

\* one turn of the while loop, on what the model answers: the call raises,
\* a message without tool calls (its content a text or None, and
\* message_text takes no NULL), or a message with tool calls; after the turn
\* that uses up max_iterations the apology is saved
LlmResponds(response) ==
    /\ chat.pc = "loop"
    /\ chat.iteration < max_iterations
    /\ LET calls == chat.llm_calls + 1
           iteration == chat.iteration + 1
           used == chat.tools_used_list \o ToolsExecuted(response.tool_calls)
       IN  IF response.kind = "raises"
           THEN /\ chatMessages' = Except(chatMessages)
                /\ chat' = [chat EXCEPT !.pc = "returned", !.llm_calls = calls,
                                        !.iteration = iteration]
           ELSE IF response.kind = "final"
           THEN /\ chatMessages' =
                      IF response.content = "none"
                      THEN Except(chatMessages)
                      ELSE Append(chatMessages,
                                  ChatMessage("bot", "answer", chat.tools_used_list))
                /\ chat' = [chat EXCEPT !.pc = "returned", !.llm_calls = calls,
                                        !.iteration = iteration]
           ELSE IF ToolRaises(response.tool_calls)
           THEN /\ chatMessages' = Except(chatMessages)
                /\ chat' = [chat EXCEPT !.pc = "returned", !.llm_calls = calls,
                                        !.iteration = iteration,
                                        !.tools_used_list = used]
           ELSE IF iteration < max_iterations
           THEN /\ chatMessages' = chatMessages
                /\ chat' = [chat EXCEPT !.llm_calls = calls,
                                        !.iteration = iteration,
                                        !.tools_used_list = used]
           ELSE /\ chatMessages' =
                      Append(chatMessages,
                             ChatMessage("bot", "max_iterations", used))
                /\ chat' = [chat EXCEPT !.pc = "returned", !.llm_calls = calls,
                                        !.iteration = iteration,
                                        !.tools_used_list = used]
    /\ UNCHANGED chatSessions
    /\ UNCHANGED_BUT_CHAT

----------------------------------------------------------------------------
(* load_jobs: _load_vacancies, _create_or_update_job, _link_skills *)

\* the names a Skill row can have here, and str.lower of them
SkillNames == {"python", "Python"}
Lower(name) == IF name = "Python" THEN "python" ELSE name

\* Skill.objects.filter(name__iexact = skill_name)
SkillsNamed(skills, skill_name) == {n \in skills : Lower(n) = skill_name}

\* the names _link_skills goes through: lowered and stripped, no empty one
NamesToLink(v) == v.skill_names \ {""}

\* get_or_create(name__iexact = skill_name, defaults name = skill_name)
\* raises MultipleObjectsReturned when two rows differ by case only; the
\* except of the loop leaves the name out with a warning
Linkable(skills, v) ==
    {n \in NamesToLink(v) : Cardinality(SkillsNamed(skills, n)) <= 1}

SkillsAfterLink(skills, v) ==
    skills \cup {n \in NamesToLink(v) : SkillsNamed(skills, n) = {}}

SkillLinked(skills, n) ==
    IF SkillsNamed(skills, n) = {} THEN n
    ELSE CHOOSE x \in SkillsNamed(skills, n) : TRUE

\* JobSkill.objects.filter(job_posting = job).delete()
LinksCleared(links, job_id) == {l \in links : l.job_posting # job_id}

LinkSkills(links, skills, job_id, v) ==
    LinksCleared(links, job_id) \cup
    {[job_posting |-> job_id, skill |-> SkillLinked(skills, n)] :
        n \in Linkable(skills, v)}

JobsOfVacancy(jobs, v) ==
    {j \in jobs : j.external_id = v.external_id
                  /\ j.source_platform = v.source_platform}

\* update_or_create(external_id, source_platform, defaults)
CreateOrUpdateJob(jobs, v) ==
    LET existing == JobsOfVacancy(jobs, v)
        id == IF existing = {} THEN Cardinality(jobs) + 1
              ELSE (CHOOSE j \in existing : TRUE).id
    IN  [id |-> id, external_id |-> v.external_id,
         source_platform |-> v.source_platform,
         archived |-> v.archived, is_active |-> ~v.archived]

\* published_at is a column without NULL, and parse_datetime gives None for
\* a date it cannot read: update_or_create raises IntegrityError
VacancyRaises(v) == v.published_at = "none"

\* one turn of the loop of _load_vacancies: transaction.atomic around the
\* job and its links, the exception of a vacancy caught and counted
LoadVacancy(st, v) ==
    IF VacancyRaises(v) THEN [st EXCEPT !.errors = @ + 1]
    ELSE LET job == CreateOrUpdateJob(st.jobs, v)
         IN  [jobs |-> (st.jobs \ JobsOfVacancy(st.jobs, v)) \cup {job},
              links |-> LinkSkills(st.links, st.skills, job.id, v),
              skills |-> SkillsAfterLink(st.skills, v),
              errors |-> st.errors]

RECURSIVE LoadVacancies(_, _)
LoadVacancies(st, vacancies) ==
    IF vacancies = <<>> THEN st
    ELSE LoadVacancies(LoadVacancy(st, Head(vacancies)), Tail(vacancies))

\* what the last vacancy of each id that did not raise held
RECURSIVE LogAfter(_, _)
LogAfter(log, vacancies) ==
    IF vacancies = <<>> THEN log
    ELSE LET v == Head(vacancies)
         IN  LogAfter(IF VacancyRaises(v) THEN log
                      ELSE [log EXCEPT ![v.external_id] = v],
                      Tail(vacancies))

UNCHANGED_BUT_LOAD ==
    UNCHANGED <<userSkills, roleRequired, careerVars, roadmaps, roadmapItems,
                nextId, combinations, quizVars, calc, seen, site, request,
                scraped, chat, chatSessions, chatMessages, workers>>

\* manage.py load_jobs on the vacancies the scraper returned
LoadJobs(vacancies) ==
    /\ LET st == LoadVacancies([jobs |-> jobPostings, links |-> jobSkills,
                                skills |-> skillTable, errors |-> 0],
                               vacancies)
       IN  /\ jobPostings' = st.jobs
           /\ jobSkills' = st.links
           /\ skillTable' = st.skills
           /\ lastOp' = Op("load_jobs", 0, 0, 0,
                           [NoResult EXCEPT !.gap_analysis_id = st.errors], FALSE)
    /\ loadLog' = LogAfter(loadLog, vacancies)
    /\ UNCHANGED_BUT_LOAD

\* the admin adds a Skill: name is unique, and "Python" is not "python"
SkillAdminAdd(name) ==
    /\ name \notin skillTable
    /\ skillTable' = skillTable \cup {name}
    /\ lastOp' = Op("skill_add", 0, 0, 0, NoResult, FALSE)
    /\ UNCHANGED <<jobPostings, jobSkills, loadLog>>
    /\ UNCHANGED_BUT_LOAD

----------------------------------------------------------------------------
(* CareerDiscoveryService: calculate_role_scores, get_recommended_roles *)

\* an option without the key related_roles (or boosts) has the empty list:
\* the loop over the key's roles is skipped either way
Option(value, related_roles, boosts) ==
    [value |-> value, related_roles |-> related_roles, boosts |-> boosts]

\* the ids, option values and role lists of the questions, in file order
CAREER_DISCOVERY_QUESTIONS == <<
    [id |-> "knowledge_check", options |-> <<
        Option("complete_beginner", <<>>,
               <<>>),
        Option("some_knowledge", <<>>,
               <<>>),
        Option("experienced", <<>>,
               <<>>)>>],
    [id |-> "primary_interest", options |-> <<
        Option("create_mobile_apps", <<"Mobile Developer", "iOS Developer", "Android Developer">>,
               <<>>),
        Option("design_interfaces", <<"UI/UX Designer", "Product Designer", "Frontend Developer">>,
               <<>>),
        Option("build_websites", <<"Frontend Developer", "Full Stack Developer", "Web Developer">>,
               <<>>),
        Option("work_with_data", <<"Data Analyst", "Data Scientist", "Business Intelligence Analyst">>,
               <<>>),
        Option("backend_systems", <<"Backend Developer", "DevOps Engineer", "System Administrator">>,
               <<>>),
        Option("secure_systems", <<"Cybersecurity Specialist", "Penetration Tester", "Security Analyst">>,
               <<>>),
        Option("test_quality", <<"QA Engineer", "Test Automation Engineer", "QA Analyst">>,
               <<>>),
        Option("ai_ml", <<"Machine Learning Engineer", "AI Specialist", "Data Scientist">>,
               <<>>)>>],
    [id |-> "work_style", options |-> <<
        Option("alone", <<>>,
               <<"Backend Developer", "DevOps Engineer", "Data Scientist">>),
        Option("team", <<>>,
               <<"Frontend Developer", "Full Stack Developer", "Product Manager">>),
        Option("both", <<>>,
               <<>>)>>],
    [id |-> "problem_solving", options |-> <<
        Option("logical_structured", <<>>,
               <<"Backend Developer", "Data Scientist", "DevOps Engineer">>),
        Option("creative_visual", <<>>,
               <<"UI/UX Designer", "Frontend Developer", "Mobile Developer">>),
        Option("investigative", <<>>,
               <<"QA Engineer", "Cybersecurity Specialist", "Data Analyst">>)>>],
    [id |-> "math_comfort", options |-> <<
        Option("love_math", <<>>,
               <<"Data Scientist", "Machine Learning Engineer", "Backend Developer">>),
        Option("okay_math", <<>>,
               <<>>),
        Option("avoid_math", <<>>,
               <<"UI/UX Designer", "Frontend Developer", "QA Engineer">>)>>],
    [id |-> "learning_style", options |-> <<
        Option("hands_on", <<>>,
               <<>>),
        Option("theory_first", <<>>,
               <<>>),
        Option("visual", <<>>,
               <<>>),
        Option("mixed", <<>>,
               <<>>)>>],
    [id |-> "work_environment", options |-> <<
        Option("startup", <<>>,
               <<"Full Stack Developer", "Mobile Developer", "DevOps Engineer">>),
        Option("corporate", <<>>,
               <<"Backend Developer", "Data Analyst", "QA Engineer">>),
        Option("freelance", <<>>,
               <<"Frontend Developer", "UI/UX Designer", "Mobile Developer">>),
        Option("any", <<>>,
               <<>>)>>],
    [id |-> "patience_detail", options |-> <<
        Option("patient_detail", <<>>,
               <<"QA Engineer", "Backend Developer", "Data Analyst">>),
        Option("fast_results", <<>>,
               <<"Frontend Developer", "Mobile Developer", "UI/UX Designer">>),
        Option("balanced", <<>>,
               <<"Full Stack Developer", "DevOps Engineer">>)>>]>>

ROLE_SCORING_WEIGHTS ==
    ("primary_interest" :> 50) @@
    ("problem_solving" :> 20) @@
    ("work_style" :> 10) @@
    ("math_comfort" :> 10) @@
    ("learning_style" :> 5) @@
    ("work_environment" :> 3) @@
    ("patience_detail" :> 2)

QuestionIndexes(question_id) ==
    {i \in DOMAIN CAREER_DISCOVERY_QUESTIONS :
        CAREER_DISCOVERY_QUESTIONS[i].id = question_id}

\* the first question with the id; None when there is none
HasQuestion(question_id) == QuestionIndexes(question_id) # {}

GetQuestionById(question_id) ==
    CAREER_DISCOVERY_QUESTIONS[
        CHOOSE i \in QuestionIndexes(question_id) :
            \A k \in QuestionIndexes(question_id) : i <= k]

OptionIndexes(question, answer_value) ==
    {i \in DOMAIN question.options : question.options[i].value = answer_value}

\* the first option with the value (the loop breaks at it)
SelectedOption(question, answer_value) ==
    question.options[
        CHOOSE i \in OptionIndexes(question, answer_value) :
            \A k \in OptionIndexes(question, answer_value) : i <= k]

\* ROLE_SCORING_WEIGHTS.get(question_id, 1)
Weight(question_id) ==
    IF question_id \in DOMAIN ROLE_SCORING_WEIGHTS
    THEN ROLE_SCORING_WEIGHTS[question_id]
    ELSE 1

\* Scores are kept in halves (score2 = 2 * score), so that weight / 2 is exact:
\* a related role gets 2 * weight halves, a boosted role gets weight halves.
FullWeight(weight) == 2 * weight

\* mutant: a boost is worth the full weight
BoostValueNotHalved(weight) == 2 * weight

BoostValue(weight) == weight

KeyIndexes(role_scores, role) ==
    {i \in DOMAIN role_scores : role_scores[i].role = role}

\* role_scores[role] += value on a defaultdict(int): a new key goes last
AddScore(role_scores, role, value) ==
    IF KeyIndexes(role_scores, role) = {}
    THEN Append(role_scores, [role |-> role, score2 |-> value])
    ELSE [i \in DOMAIN role_scores |->
            IF role_scores[i].role = role
            THEN [role_scores[i] EXCEPT !.score2 = @ + value]
            ELSE role_scores[i]]

RECURSIVE AddScores(_, _, _)
AddScores(role_scores, roles, value) ==
    IF roles = <<>> THEN role_scores
    ELSE AddScores(AddScore(role_scores, Head(roles), value), Tail(roles), value)

\* one pass of the loop over responses.items()
ProcessResponse(role_scores, response) ==
    IF ~HasQuestion(response.question_id) THEN role_scores
    ELSE LET question == GetQuestionById(response.question_id)
         IN  IF OptionIndexes(question, response.answer_value) = {}
             THEN role_scores
             ELSE LET option == SelectedOption(question, response.answer_value)
                      weight == Weight(response.question_id)
                  IN  AddScores(
                          AddScores(role_scores, option.related_roles,
                                    FullWeight(weight)),
                          option.boosts, BoostValue(weight))

RECURSIVE RoleScores(_)
RoleScores(resp) ==
    IF resp = <<>> THEN <<>>
    ELSE ProcessResponse(RoleScores(SubSeq(resp, 1, Len(resp) - 1)),
                         resp[Len(resp)])

\* mutant: an item goes before the items of equal score
InsertBeforeEqual(sorted, item) ==
    LET before == {i \in DOMAIN sorted : sorted[i].score2 > item.score2}
        n == Cardinality(before)
    IN  SubSeq(sorted, 1, n) \o <<item>> \o SubSeq(sorted, n + 1, Len(sorted))

\* sorted(..., key = score, reverse = True) is stable: an item goes after the
\* items of greater or equal score that precede it
InsertByScore(sorted, item) ==
    LET before == {i \in DOMAIN sorted : sorted[i].score2 >= item.score2}
        n == Cardinality(before)
    IN  SubSeq(sorted, 1, n) \o <<item>> \o SubSeq(sorted, n + 1, Len(sorted))

RECURSIVE SortedByScore(_)
SortedByScore(items) ==
    IF items = <<>> THEN <<>>
    ELSE InsertByScore(SortedByScore(SubSeq(items, 1, Len(items) - 1)),
                       items[Len(items)])

CalculateRoleScoresOf(resp) == SortedByScore(RoleScores(resp))

\* role_scores[:top_n]
TopRoles(role_scores, top_n) ==
    SubSeq(role_scores, 1, Min(top_n, Len(role_scores)))

DefaultTopN == 5

\* Role.objects.filter(title__icontains = role_name).first()
RolesContaining(role_name) == {t \in roleTitles : role_name \in t.contains}

Recommendation(entry) ==
    IF RolesContaining(entry.role) # {}
    THEN [role_id |-> (CHOOSE t \in RolesContaining(entry.role) : TRUE).id,
          role_title |-> (CHOOSE t \in RolesContaining(entry.role) : TRUE).title,
          role_name |-> entry.role,
          match_score2 |-> entry.score2]
    ELSE [role_id |-> 0,
          role_title |-> entry.role,
          role_name |-> entry.role,
          match_score2 |-> entry.score2]

RecommendedRolesOf(resp, top_n) ==
    LET top_roles == TopRoles(CalculateRoleScoresOf(resp), top_n)
    IN  [i \in DOMAIN top_roles |-> Recommendation(top_roles[i])]

UNCHANGED_BUT_QUIZ ==
    UNCHANGED <<userSkills, roleRequired, careerVars, roadmaps, roadmapItems,
                nextId, jobVars, roleTitles, responses, taskVars>>

CalculateRoleScores ==
    /\ sortedRoles' = CalculateRoleScoresOf(responses)
    /\ lastOp' = Op("calculate_role_scores", 0, 0, 0, NoResult, FALSE)
    /\ UNCHANGED recommendations
    /\ UNCHANGED_BUT_QUIZ

\* role_scores is the list calculate_role_scores returns inside the call
GetRecommendedRoles(top_n) ==
    /\ sortedRoles' = CalculateRoleScoresOf(responses)
    /\ recommendations' = RecommendedRolesOf(responses, top_n)
    /\ lastOp' = Op("get_recommended_roles", 0, 0, top_n, NoResult, FALSE)
    /\ UNCHANGED_BUT_QUIZ

----------------------------------------------------------------------------
(* Specifications *)

InitIds == [gap |-> 1, roadmap |-> 1, item |-> 1]

\* no run of calculate_combinations under way, nothing read
IdleCalc == [pc |-> "idle", combinations |-> {}, created_count |-> 0]
NoRead == [pc |-> "none", skill |-> 0, rows |-> {}]

\* no scrape asked for
NoSite == <<>>
NoRequest == [professional_roles |-> <<>>, max_vacancies |-> 0]
NotScraped == [done |-> FALSE, vacancies |-> <<>>]

NoScrape ==
    /\ site = NoSite
    /\ request = NoRequest
    /\ scraped = NotScraped

NoRun ==
    /\ calc = IdleCalc
    /\ seen = NoRead

\* no message sent to the chatbot
IdleChat == [pc |-> "idle", session |-> 0, before |-> 0, iteration |-> 0,
             llm_calls |-> 0, tools_used_list |-> <<>>]

NoChat ==
    /\ chat = IdleChat
    /\ chatSessions = {}
    /\ chatMessages = <<>>

\* load_jobs not run
NoLoad ==
    /\ skillTable = {}
    /\ loadLog = <<>>

\* no requests side by side
NoWorkers == workers = <<>>

NoTasks ==
    /\ NoRun
    /\ NoScrape
    /\ NoChat
    /\ NoLoad
    /\ NoWorkers

NoQuiz ==
    /\ roleTitles = {}
    /\ responses = <<>>
    /\ sortedRoles = <<>>
    /\ recommendations = <<>>

EmptyResults ==
    /\ gapAnalyses = {}
    /\ missingSkills = EmptyBag
    /\ recommended = {}
    /\ roadmaps = {}
    /\ roadmapItems = {}
    /\ nextId = InitIds
    /\ combinations = {}
    /\ NoQuiz
    /\ NoTasks
    /\ lastOp = Op("none", 0, 0, 0, NoResult, FALSE)
    /\ ops = 0

RowsOfRequired(r, f) ==
    {[role |-> r, skill |-> s, importance |-> f[s]] :
        s \in {x \in DOMAIN f : f[x] # "none"}}

RowsOfUserSkills(u, f) ==
    {[user |-> u, skill |-> s, status |-> f[s]] :
        s \in {x \in DOMAIN f : f[x] # "none"}}

\* one user, one role; any requirement table and any set of learned skills
InitGap ==
    /\ \E f \in [GapSkills -> Importance \cup {"none"}] :
          roleRequired = RowsOfRequired(1, f)
    /\ \E f \in [GapSkills -> {"learned", "none"}] :
          userSkills = RowsOfUserSkills(1, f)
    /\ jobPostings = {}
    /\ jobSkills = {}
    /\ EmptyResults

NextGap ==
    /\ ops < MaxCalls
    /\ ops' = ops + 1
    /\ AnalyzeUserForRole(1, 1)

SpecGap == InitGap /\ [][NextGap]_vars

\* the roles of the fixture: role 1 requires every skill, with importance
\* critical, important, nice_to_have, critical, ...; role 2 requires the
\* skills 1 and 2, both important
FixtureImportance(s) ==
    IF s % 3 = 1 THEN "critical"
    ELSE IF s % 3 = 2 THEN "important"
    ELSE "nice_to_have"

FixtureRequired ==
    {[role |-> 1, skill |-> s, importance |-> FixtureImportance(s)] : s \in Skills}
    \cup {[role |-> r, skill |-> s, importance |-> "important"] :
             r \in Roles \ {1}, s \in {1, 2} \cap Skills}

Init ==
    /\ roleRequired = FixtureRequired
    /\ userSkills = {}
    /\ jobPostings = {}
    /\ jobSkills = {}
    /\ EmptyResults

\* one more operation, within the budget
Budget == ops < MaxOps /\ ops' = ops + 1

Next ==
    \/ \E u \in Users, r \in Roles : Budget /\ AnalyzeUserForRole(u, r)
    \/ \E u \in Users, r \in Roles : Budget /\ GenerateRoadmap(u, r)
    \/ \E u \in Users, s \in Skills, st \in SkillStatus :
          Budget /\ UserSkillCreate(u, s, st)
    \/ \E u \in Users, s \in Skills, st \in SkillStatus :
          Budget /\ UserSkillUpdate(u, s, st)
    \/ \E u \in Users, s \in Skills : Budget /\ UserSkillMarkLearned(u, s)
    \/ \E u \in Users, s \in Skills : Budget /\ UserSkillMarkInProgress(u, s)
    \/ \E u \in Users, s \in Skills : Budget /\ UserSkillDestroy(u, s)
    \/ \E it \in roadmapItems : Budget /\ ItemStart(it)
    \/ \E it \in roadmapItems, duration \in DurationInputs :
          Budget /\ ItemComplete(it, duration)
    \/ \E it \in roadmapItems, value \in ItemStatus :
          Budget /\ ItemPartialUpdate(it, value)
    \/ \E it \in roadmapItems : Budget /\ ItemMarkCompleted(it)
    \/ \E it \in roadmapItems : Budget /\ ItemReset(it)

Spec == Init /\ [][Next]_vars

\* the analysis and the generation with a database that may fail at any
\* write: the roles of the fixture, a user with any set of learned skills
InitFail ==
    /\ roleRequired = FixtureRequired
    /\ \E learned \in SUBSET Skills :
          userSkills = {[user |-> 1, skill |-> s, status |-> "learned"] :
                           s \in learned}
    /\ jobPostings = {}
    /\ jobSkills = {}
    /\ EmptyResults

CallBudget == ops < MaxCalls /\ ops' = ops + 1

NextFail ==
    \/ \E u \in Users, r \in Roles : CallBudget /\ AnalyzeUserForRole(u, r)
    \/ \E u \in Users, r \in Roles : CallBudget /\ GenerateRoadmap(u, r)
    \/ \E u \in Users, r \in Roles, done \in 0..(NumSkills + 2) :
          CallBudget /\ AnalyzeFails(u, r, done)
    \/ \E u \in Users, r \in Roles, done \in 0..(2 * NumSkills + 5) :
          CallBudget /\ GenerateFails(u, r, done)

SpecFail == InitFail /\ [][NextFail]_vars

\* roadmaps made by generation and by the roadmap endpoints, for a user with
\* any set of learned skills
NextRoadmap ==
    \/ \E u \in Users, r \in Roles : Budget /\ GenerateRoadmap(u, r)
    \/ \E u \in Users, r \in Roles, is_active \in BOOLEAN :
          Budget /\ RoadmapCreate(u, r, is_active)
    \/ \E rm \in roadmaps : Budget /\ RoadmapActivate(rm)
    \/ \E rm \in roadmaps : Budget /\ RoadmapDeactivate(rm)

SpecRoadmap == InitFail /\ [][NextRoadmap]_vars

\* any job postings and links; the table is empty or holds a row of an
\* earlier run over other job data
StaleCombinations ==
    {[skill_1 |-> 1, skill_2 |-> 2, co_occurrence_count |-> NumJobs + 1,
      correlation_score |-> [num |-> 1, den |-> 1]]}

InitComb ==
    /\ \E act \in [1..NumJobs -> BOOLEAN] :
          jobPostings = {[id |-> j, is_active |-> act[j]] : j \in 1..NumJobs}
    /\ \E links \in [1..NumJobs -> SUBSET (1..NumJobSkills)] :
          jobSkills = {row \in [job_posting : 1..NumJobs, skill : 1..NumJobSkills] :
                          row.skill \in links[row.job_posting]}
    /\ userSkills = {}
    /\ roleRequired = {}
    /\ gapAnalyses = {}
    /\ missingSkills = EmptyBag
    /\ recommended = {}
    /\ roadmaps = {}
    /\ roadmapItems = {}
    /\ nextId = InitIds
    /\ combinations \in {{}, StaleCombinations}
    /\ NoQuiz
    /\ NoTasks
    /\ lastOp = Op("none", 0, 0, 0, NoResult, FALSE)
    /\ ops = 0

NextComb ==
    /\ ops < MaxCalls
    /\ ops' = ops + 1
    /\ CalculateCombinations

SpecComb == InitComb /\ [][NextComb]_vars

\* one run of calculate_combinations, taken statement by statement, over job
\* postings and links that stay as they are (the last posting active or
\* archived), on a table that holds a row of an earlier run, and requests
\* that read the table before, during and after it
InitRun ==
    /\ \E last \in BOOLEAN :
          jobPostings = {[id |-> j, is_active |-> (j < NumRunJobs \/ last)] :
                            j \in 1..NumRunJobs}
    /\ \E links \in [1..NumRunJobs -> SUBSET (1..NumRunSkills)] :
          jobSkills = {row \in [job_posting : 1..NumRunJobs, skill : 1..NumRunSkills] :
                          row.skill \in links[row.job_posting]}
    /\ userSkills = {}
    /\ roleRequired = {}
    /\ gapAnalyses = {}
    /\ missingSkills = EmptyBag
    /\ recommended = {}
    /\ roadmaps = {}
    /\ roadmapItems = {}
    /\ nextId = InitIds
    /\ combinations = StaleCombinations
    /\ NoQuiz
    /\ NoTasks
    /\ lastOp = Op("none", 0, 0, 0, NoResult, FALSE)
    /\ ops = 0

NextRun ==
    \/ CalcBegin /\ UNCHANGED ops
    \/ \E e \in calc.combinations : CalcCreate(e) /\ UNCHANGED ops
    \/ CalcReturn /\ UNCHANGED ops
    \/ \E s \in 1..NumRunSkills : Related(s) /\ UNCHANGED ops

SpecRun == InitRun /\ [][NextRun]_vars

\* a scrape of hh.uz: any pages of any items for every role, a page that
\* cannot be fetched among them, any order of the roles, and any
\* max_vacancies (0: none given)
Items == UNION {[1..n -> {"ok", "none"}] : n \in 0..MaxItemsPerPage}
Pages == {[ok |-> FALSE, items |-> <<>>]} \cup
         {[ok |-> TRUE, items |-> items] : items \in Items}
RolePages == UNION {[1..n -> Pages] : n \in 0..MaxSitePages}
RoleLists ==
    {l \in UNION {[1..n -> 1..NumScrapeRoles] : n \in 1..NumScrapeRoles} :
        \A i, k \in 1..Len(l) : i # k => l[i] # l[k]}

InitScrape ==
    /\ site \in [1..NumScrapeRoles -> RolePages]
    /\ \E l \in RoleLists, m \in 0..MaxVacancies :
          request = [professional_roles |-> l, max_vacancies |-> m]
    /\ scraped = NotScraped
    /\ NoRun
    /\ NoChat
    /\ NoLoad
    /\ NoWorkers
    /\ NoQuiz
    /\ userSkills = {}
    /\ roleRequired = {}
    /\ gapAnalyses = {}
    /\ missingSkills = EmptyBag
    /\ recommended = {}
    /\ roadmaps = {}
    /\ roadmapItems = {}
    /\ nextId = InitIds
    /\ jobPostings = {}
    /\ jobSkills = {}
    /\ combinations = {}
    /\ lastOp = Op("none", 0, 0, 0, NoResult, FALSE)
    /\ ops = 0

NextScrape == Scrape /\ UNCHANGED ops

SpecScrape == InitScrape /\ [][NextScrape]_vars

\* one message sent to the chatbot, in a new session or in one that holds an
\* earlier exchange; the model answers each call in any of the ways it can
Tools == {"get_user_skills", "get_market_trends"}
ToolCalls ==
    UNION {[1..n -> [name : Tools, outcome : {"ok", "raises"}]] :
              n \in 1..MaxToolCalls}
Responses ==
    {[kind |-> "raises", content |-> "none", tool_calls |-> <<>>]} \cup
    {[kind |-> "final", content |-> c, tool_calls |-> <<>>] :
        c \in {"text", "none"}} \cup
    {[kind |-> "tool_calls", content |-> "none", tool_calls |-> tcs] :
        tcs \in ToolCalls}

EarlierExchange ==
    <<ChatMessage("user", "text", <<>>), ChatMessage("bot", "answer", <<>>)>>

InitChat ==
    /\ chat = IdleChat
    /\ \/ chatSessions = {} /\ chatMessages = <<>>
       \/ chatSessions = {1} /\ chatMessages \in {<<>>, EarlierExchange}
    /\ NoRun
    /\ NoScrape
    /\ NoLoad
    /\ NoWorkers
    /\ NoQuiz
    /\ userSkills = {}
    /\ roleRequired = {}
    /\ gapAnalyses = {}
    /\ missingSkills = EmptyBag
    /\ recommended = {}
    /\ roadmaps = {}
    /\ roadmapItems = {}
    /\ nextId = InitIds
    /\ jobPostings = {}
    /\ jobSkills = {}
    /\ combinations = {}
    /\ lastOp = Op("none", 0, 0, 0, NoResult, FALSE)
    /\ ops = 0

NextChat ==
    \/ SendMessage /\ UNCHANGED ops
    \/ \E response \in Responses : LlmResponds(response) /\ UNCHANGED ops

SpecChat == InitChat /\ [][NextChat]_vars

\* runs of load_jobs on any vacancies: the same vacancy again, archived or
\* not, with other skills, with a date that cannot be read; skills added in
\* the admin between the runs
NoVacancy == [external_id |-> 0, source_platform |-> "hh.uz",
              archived |-> FALSE, skill_names |-> {}, published_at |-> "none"]
Vacancies ==
    [external_id : 1..NumVacancies, source_platform : {"hh.uz"},
     archived : BOOLEAN, skill_names : SUBSET {"python", ""},
     published_at : {"date", "none"}]
Batches == UNION {[1..n -> Vacancies] : n \in 1..MaxBatch}

InitLoad ==
    /\ skillTable \in {{}, {"Python"}}
    /\ loadLog = [e \in 1..NumVacancies |-> NoVacancy]
    /\ NoRun
    /\ NoScrape
    /\ NoChat
    /\ NoWorkers
    /\ NoQuiz
    /\ userSkills = {}
    /\ roleRequired = {}
    /\ gapAnalyses = {}
    /\ missingSkills = EmptyBag
    /\ recommended = {}
    /\ roadmaps = {}
    /\ roadmapItems = {}
    /\ nextId = InitIds
    /\ jobPostings = {}
    /\ jobSkills = {}
    /\ combinations = {}
    /\ lastOp = Op("none", 0, 0, 0, NoResult, FALSE)
    /\ ops = 0

NextLoad ==
    \/ \E vacancies \in Batches : CallBudget /\ LoadJobs(vacancies)
    \/ \E name \in SkillNames : CallBudget /\ SkillAdminAdd(name)

SpecLoad == InitLoad /\ [][NextLoad]_vars

\* NumWorkers requests that analyse the same user for the same role side by
\* side, their statements in any order, and calls on their own before the
\* requests begin and after they have ended
InitRace ==
    /\ roleRequired = FixtureRequired
    /\ \E learned \in SUBSET Skills :
          userSkills = {[user |-> 1, skill |-> s, status |-> "learned"] :
                           s \in learned}
    /\ \E r \in Roles :
          workers = [w \in 1..NumWorkers |-> Worker("start", 1, r, 0, {})]
    /\ NoRun
    /\ NoScrape
    /\ NoChat
    /\ NoLoad
    /\ NoQuiz
    /\ gapAnalyses = {}
    /\ missingSkills = EmptyBag
    /\ recommended = {}
    /\ roadmaps = {}
    /\ roadmapItems = {}
    /\ nextId = InitIds
    /\ jobPostings = {}
    /\ jobSkills = {}
    /\ combinations = {}
    /\ lastOp = Op("none", 0, 0, 0, NoResult, FALSE)
    /\ ops = 0

NoneUnderWay == \A w \in DOMAIN workers : workers[w].pc \in {"start", "done", "failed"}

NextRace ==
    \/ /\ NoneUnderWay
       /\ CallBudget
       /\ AnalyzeUserForRole(workers[1].user, workers[1].role)
    \/ \E w \in DOMAIN workers : AnalyzeGet(w) /\ UNCHANGED ops
    \/ \E w \in DOMAIN workers : AnalyzeCreate(w) /\ UNCHANGED ops
    \/ \E w \in DOMAIN workers : AnalyzeDelete(w) /\ UNCHANGED ops
    \/ \E w \in DOMAIN workers, rr \in roleRequired :
          AnalyzeCreateMissing(w, rr) /\ UNCHANGED ops
    \/ \E w \in DOMAIN workers : AnalyzeRecommend(w) /\ UNCHANGED ops

SpecRace == InitRace /\ [][NextRace]_vars

\* the responses of a request: any question id of the quiz or an unknown one,
\* any option value of the question or an unknown one, each question at most
\* once (the responses are a dict), in the order of the request
ResponseChoices ==
    {[question_id |-> "favorite_color", answer_value |-> "blue"]} \cup
    UNION {
        {[question_id |-> CAREER_DISCOVERY_QUESTIONS[i].id, answer_value |-> v] :
            v \in {CAREER_DISCOVERY_QUESTIONS[i].options[k].value :
                      k \in DOMAIN CAREER_DISCOVERY_QUESTIONS[i].options}
                  \cup {"no_such_option"}} :
        i \in DOMAIN CAREER_DISCOVERY_QUESTIONS}

FixtureRoleTitles ==
    {[id |-> 1, title |-> "Senior Backend Developer",
      contains |-> {"Backend Developer"}]}

InitQuiz ==
    /\ \E n \in 0..MaxResponses :
          \E f \in [1..n -> ResponseChoices] :
              /\ \A i, k \in 1..n : i # k => f[i].question_id # f[k].question_id
              /\ responses = f
    /\ roleTitles = FixtureRoleTitles
    /\ sortedRoles = <<>>
    /\ recommendations = <<>>
    /\ userSkills = {}
    /\ roleRequired = {}
    /\ gapAnalyses = {}
    /\ missingSkills = EmptyBag
    /\ recommended = {}
    /\ roadmaps = {}
    /\ roadmapItems = {}
    /\ nextId = InitIds
    /\ jobPostings = {}
    /\ jobSkills = {}
    /\ combinations = {}
    /\ NoTasks
    /\ lastOp = Op("none", 0, 0, 0, NoResult, FALSE)
    /\ ops = 0

\* the service keeps no state: a behaviour is one call on one request
OneCall == lastOp.op = "none" /\ ops' = ops + 1

NextQuiz ==
    \/ OneCall /\ CalculateRoleScores
    \/ \E top_n \in 0..DefaultTopN : OneCall /\ GetRecommendedRoles(top_n)

SpecQuiz == InitQuiz /\ [][NextQuiz]_vars

----------------------------------------------------------------------------
(* Properties of analyze_user_for_role *)

Analyzed == lastOp.op = "analyze"

\* rows of the analysis of (u, r), with their number of copies
MissingRowsOf(u, r) ==
    {m \in DOMAIN missingSkills :
        \E g \in ExistingGap(u, r) : m.gap_analysis = g.id}

\* C1, as claimed: match_percentage lies in [0, 100] and is 100 exactly when
\* every required skill is learned
C1_HundredIffSubset ==
    Analyzed =>
        /\ FracGE(lastOp.ret.match_percentage, 0)
        /\ FracLE(lastOp.ret.match_percentage, 100)
        /\ FracEq(lastOp.ret.match_percentage, 100)
              <=> RequiredSkillIds(lastOp.role) \subseteq LearnedSkillIds(lastOp.user)

\* C1, amended: match_percentage lies in [0, 100] and is 100 exactly when the
\* role requires at least one skill and every required skill is learned; for
\* a role that requires no skill it is 0
C1_HundredIffNonEmptySubset ==
    Analyzed =>
        /\ FracGE(lastOp.ret.match_percentage, 0)
        /\ FracLE(lastOp.ret.match_percentage, 100)
        /\ FracEq(lastOp.ret.match_percentage, 100)
              <=> /\ RequiredSkillIds(lastOp.role) # {}
                  /\ RequiredSkillIds(lastOp.role) \subseteq LearnedSkillIds(lastOp.user)
        /\ RequiredSkillIds(lastOp.role) = {}
              => FracEq(lastOp.ret.match_percentage, 0)

C1_Witness ==
    /\ Analyzed
    /\ Cardinality(RequiredSkillIds(lastOp.role)) >= 2
    /\ RequiredSkillIds(lastOp.role) \subseteq LearnedSkillIds(lastOp.user)
    /\ lastOp.ret.match_percentage = [num |-> 100, den |-> 1]

\* C2: readiness_level is job_ready when match_percentage >= 80,
\* partially_ready when 50 <= match_percentage < 80 and not_ready below 50,
\* in the returned result and in the stored analysis
C2_ReadinessThresholds ==
    Analyzed =>
        LET k == Cardinality(MatchingSkills(lastOp.user, lastOp.role))
            n == Cardinality(RequiredSkillIds(lastOp.role))
            level == IF n > 0 /\ 100 * k >= 80 * n THEN "job_ready"
                     ELSE IF n > 0 /\ 100 * k >= 50 * n THEN "partially_ready"
                     ELSE "not_ready"
        IN  /\ lastOp.ret.readiness_level = level
            /\ \A g \in ExistingGap(lastOp.user, lastOp.role) :
                   g.readiness_level = level

\* exactly 80 per cent is job_ready
C2_Witness ==
    /\ Analyzed
    /\ lastOp.ret.match_percentage = [num |-> 80, den |-> 1]
    /\ lastOp.ret.readiness_level = "job_ready"

MissingWithImportance(u, r, importance) ==
    {rr \in RequiredRows(r) :
        /\ rr.importance = importance
        /\ ~\E us \in userSkills :
               us.user = u /\ us.skill = rr.skill /\ us.status = "learned"}

\* C3: the estimated weeks, returned and stored, are 4 per missing critical
\* skill, 2 per missing important skill and 1 per missing nice_to_have skill
C3_EstimatedWeeks ==
    Analyzed =>
        LET u == lastOp.user
            r == lastOp.role
            weeks == 4 * Cardinality(MissingWithImportance(u, r, "critical"))
                     + 2 * Cardinality(MissingWithImportance(u, r, "important"))
                     + Cardinality(MissingWithImportance(u, r, "nice_to_have"))
        IN  /\ lastOp.ret.estimated_learning_weeks = weeks
            /\ ExistingGap(u, r) # {}
            /\ \A g \in ExistingGap(u, r) : g.estimated_learning_time_weeks = weeks

\* {Python, SQL} against {Python: critical, Django: critical, SQL: important,
\* Docker: nice_to_have}: match 50, partially_ready, 5 weeks
C3_Witness ==
    /\ Analyzed
    /\ roleRequired = {[role |-> 1, skill |-> 1, importance |-> "critical"],
                       [role |-> 1, skill |-> 2, importance |-> "critical"],
                       [role |-> 1, skill |-> 3, importance |-> "important"],
                       [role |-> 1, skill |-> 4, importance |-> "nice_to_have"]}
    /\ LearnedSkillIds(1) = {1, 3}
    /\ lastOp.ret.match_percentage = [num |-> 50, den |-> 1]
    /\ lastOp.ret.readiness_level = "partially_ready"
    /\ lastOp.ret.readiness_score = [num |-> 40, den |-> 1]
    /\ lastOp.ret.estimated_learning_weeks = 5

ExpectedPriority(importance) ==
    CASE importance = "critical" -> "high"
      [] importance = "important" -> "medium"
      [] importance = "nice_to_have" -> "low"

ExpectedWeeks(importance) ==
    CASE importance = "critical" -> 4
      [] importance = "important" -> 2
      [] importance = "nice_to_have" -> 1

HasLearned(u, s) ==
    \E us \in userSkills : us.user = u /\ us.skill = s /\ us.status = "learned"

\* C4: right after the analysis the MissingSkill rows of the analysis are one
\* row per required skill the user has no learned UserSkill for, with the
\* priority and the weeks of the importance, and no other row
C4_MissingRows ==
    Analyzed =>
        LET u == lastOp.user
            r == lastOp.role
        IN  /\ \A rr \in RequiredRows(r) :
                   LET rows == {m \in MissingRowsOf(u, r) : m.skill = rr.skill}
                   IN  IF HasLearned(u, rr.skill)
                       THEN rows = {}
                       ELSE /\ Cardinality(rows) = 1
                            /\ \A m \in rows :
                                  /\ missingSkills[m] = 1
                                  /\ m.priority = ExpectedPriority(rr.importance)
                                  /\ m.estimated_learning_weeks
                                        = ExpectedWeeks(rr.importance)
            /\ \A m \in MissingRowsOf(u, r) : m.skill \in RequiredSkillIds(r)

\* an analysis with a required skill in progress, one not started and one
\* without UserSkill, all three missing
C4_Witness ==
    /\ Analyzed
    /\ \E a, b, c \in RequiredSkillIds(lastOp.role) :
          /\ [user |-> lastOp.user, skill |-> a, status |-> "in_progress"] \in userSkills
          /\ [user |-> lastOp.user, skill |-> b, status |-> "not_started"] \in userSkills
          /\ UserSkillRow(lastOp.user, c) = {}
          /\ {a, b, c} \subseteq {m.skill : m \in MissingRowsOf(lastOp.user, lastOp.role)}

\* C5: a second analysis of the same user and role right after the first
\* returns the same result and leaves the same rows, one SkillGapAnalysis
\* and no MissingSkill twice
C5_AnalyzeTwice ==
    [][(/\ lastOp.op = "analyze"
        /\ lastOp'.op = "analyze"
        /\ lastOp'.user = lastOp.user
        /\ lastOp'.role = lastOp.role)
       => /\ lastOp'.ret = lastOp.ret
          /\ gapAnalyses' = gapAnalyses
          /\ missingSkills' = missingSkills
          /\ recommended' = recommended
          /\ Cardinality(gapAnalyses') = 1
          /\ \A m \in DOMAIN missingSkills' : missingSkills'[m] = 1
          /\ \A m1, m2 \in DOMAIN missingSkills' :
                (m1.gap_analysis = m2.gap_analysis /\ m1.skill = m2.skill)
                    => m1 = m2]_vars

C5_Witness ==
    /\ Analyzed
    /\ lastOp.repeat
    /\ BagCardinality(missingSkills) >= 2

----------------------------------------------------------------------------
(* Properties of the stored analyses *)

RecommendedOf(u, r) == {x \in recommended : x.user = u /\ x.role = r}

\* the last operation analysed (u, r), directly or inside generate_roadmap
AnalysisOf(op, u, r) ==
    op.op \in {"analyze", "generate"} /\ op.user = u /\ op.role = r

HoldsResult(u, r, ret) ==
    /\ \A g \in ExistingGap(u, r) :
          /\ g.id = ret.gap_analysis_id
          /\ g.overall_match_percentage = ret.match_percentage
          /\ g.readiness_level = ret.readiness_level
          /\ g.estimated_learning_time_weeks = ret.estimated_learning_weeks
    /\ \A x \in RecommendedOf(u, r) :
          /\ x.match_percentage = ret.match_percentage
          /\ x.readiness_score = ret.readiness_score
          /\ x.missing_skills_count = ret.missing_skills_count

\* C6: each (user, role) has at most one SkillGapAnalysis and at most one
\* UserRecommendedRole; right after an analysis of the pair each holds the
\* values of that analysis, and no other operation changes them
C6_OneRowPerPair ==
    /\ [](\A u \in Users, r \in Roles :
             /\ Cardinality(ExistingGap(u, r)) <= 1
             /\ Cardinality(RecommendedOf(u, r)) <= 1
             /\ AnalysisOf(lastOp, u, r)
                   => /\ Cardinality(ExistingGap(u, r)) = 1
                      /\ Cardinality(RecommendedOf(u, r)) = 1
                      /\ HoldsResult(u, r, lastOp.ret))
    /\ [][\A u \in Users, r \in Roles :
             ~AnalysisOf(lastOp', u, r)
                => /\ ExistingGap(u, r)' = ExistingGap(u, r)
                   /\ RecommendedOf(u, r)' = RecommendedOf(u, r)]_vars

\* the pair analysed first is analysed again, with another outcome, when a
\* second pair has its rows
C6_Witness ==
    /\ lastOp.op = "analyze"
    /\ lastOp.ret.gap_analysis_id = 1
    /\ lastOp.ret.matching_skills_count > 0
    /\ Cardinality(gapAnalyses) = 2
    /\ Cardinality(recommended) = 2

----------------------------------------------------------------------------
(* Properties of generate_roadmap *)

RoadmapRowsOf(u, r) == {rm.id : rm \in ExistingRoadmap(u, r)}

RoadmapItemsOf(u, r) == {it \in roadmapItems : it.roadmap \in RoadmapRowsOf(u, r)}

\* one item per MissingSkill row of the analysis, numbered 1..N
ItemsMatchMissing(u, r) ==
    LET items == RoadmapItemsOf(u, r)
        rows == MissingRowsOf(u, r)
    IN  /\ Cardinality(ExistingRoadmap(u, r)) = 1
        /\ \A m \in rows :
              Cardinality({it \in items : it.skill = m.skill}) = missingSkills[m]
        /\ \A it \in items : \E m \in rows : m.skill = it.skill
        /\ {it.sequence_order : it \in items} = 1..Cardinality(items)

ItemOperation(op) == op.op \in {"start", "complete", "complete_error", "reset"}

\* C7: after generate_roadmap the roadmap has one item per MissingSkill of
\* the analysis, numbered 1..N, and start, complete and reset keep it so
C7_ItemsDense ==
    /\ [](lastOp.op = "generate" => ItemsMatchMissing(lastOp.user, lastOp.role))
    /\ [][\A u \in Users, r \in Roles :
             (ItemsMatchMissing(u, r) /\ ItemOperation(lastOp'))
                => ItemsMatchMissing(u, r)']_vars

\* a roadmap of three items after one of its items was completed
C7_Witness ==
    /\ lastOp.op \in {"complete", "complete_error"}
    /\ \E u \in Users, r \in Roles :
          /\ ItemsMatchMissing(u, r)
          /\ Cardinality(RoadmapItemsOf(u, r)) = 3
          /\ \E it \in RoadmapItemsOf(u, r) :
                it.id = lastOp.item /\ it.status = "completed"

PriorityLevel(p) ==
    CASE p = "high" -> 3
      [] p = "medium" -> 2
      [] p = "low" -> 1

\* C8: the items are numbered by descending priority (high, medium, low),
\* then by ascending skill name
C8_PriorityThenName ==
    lastOp.op = "generate" =>
        \A a, b \in RoadmapItemsOf(lastOp.user, lastOp.role) :
            /\ PriorityLevel(a.priority) > PriorityLevel(b.priority)
                  => a.sequence_order < b.sequence_order
            /\ (a.priority = b.priority /\ NameRank(a.skill) < NameRank(b.skill))
                  => a.sequence_order < b.sequence_order

\* C9: generate_roadmap on an existing roadmap keeps the roadmap row, removes
\* every item it had and leaves pending items for the skills missing now
C9_Regenerate ==
    [][\A u \in Users, r \in Roles :
          (lastOp'.op = "generate" /\ lastOp'.repeat
              /\ lastOp'.user = u /\ lastOp'.role = r)
          => /\ ExistingRoadmap(u, r) # {}
             /\ RoadmapRowsOf(u, r)' = RoadmapRowsOf(u, r)
             /\ Cardinality(roadmaps') = Cardinality(roadmaps)
             /\ \A old \in RoadmapItemsOf(u, r) :
                   ~\E it \in roadmapItems' : it.id = old.id
             /\ \A it \in RoadmapItemsOf(u, r)' : it.status = "pending"
             /\ {it.skill : it \in RoadmapItemsOf(u, r)'}
                   = {rr.skill : rr \in {x \in RequiredRows(r) :
                                            ~HasLearned(u, x.skill)}}
             /\ Cardinality(RoadmapItemsOf(u, r)')
                   = Cardinality({it.skill : it \in RoadmapItemsOf(u, r)'})]_vars

\* a regenerated roadmap whose items replace earlier ones, for fewer skills
\* than the role requires
C9_Witness ==
    /\ lastOp.op = "generate"
    /\ lastOp.repeat
    /\ RoadmapItemsOf(lastOp.user, lastOp.role) # {}
    /\ \A it \in RoadmapItemsOf(lastOp.user, lastOp.role) :
          it.id > Cardinality(RequiredRows(lastOp.role))
    /\ lastOp.ret.matching_skills_count > 0

----------------------------------------------------------------------------
(* Properties of calculate_combinations *)

JobsListingBoth(a, b) ==
    {j \in jobPostings :
        /\ j.is_active
        /\ [job_posting |-> j.id, skill |-> a] \in jobSkills
        /\ [job_posting |-> j.id, skill |-> b] \in jobSkills}

\* C10: after calculate_combinations two distinct skills have one row, with
\* skill_1 the smaller id and the number of active postings that list both as
\* count, when at least 2 active postings list both, and no row otherwise
C10_Combinations ==
    lastOp.op = "calculate_combinations" =>
        /\ \A a, b \in 1..NumJobSkills :
              a < b =>
                 LET n == Cardinality(JobsListingBoth(a, b))
                     rows == {c \in combinations :
                                 {c.skill_1, c.skill_2} = {a, b}}
                 IN  IF n >= 2
                     THEN /\ Cardinality(rows) = 1
                          /\ \A c \in rows :
                                /\ c.skill_1 = a
                                /\ c.skill_2 = b
                                /\ c.co_occurrence_count = n
                     ELSE rows = {}
        /\ \A c \in combinations : c.skill_1 # c.skill_2

\* two active jobs list {Python, Django}, a third lists {Python}: one row
\* (Python, Django) with count 2, whatever the table held before
C10_Witness ==
    /\ lastOp.op = "calculate_combinations"
    /\ ~lastOp.repeat
    /\ \A j \in jobPostings : j.is_active
    /\ jobSkills = {[job_posting |-> 1, skill |-> 1], [job_posting |-> 1, skill |-> 2],
                    [job_posting |-> 2, skill |-> 1], [job_posting |-> 2, skill |-> 2],
                    [job_posting |-> 3, skill |-> 1]}
    /\ Cardinality(combinations) = 1
    /\ \A c \in combinations :
          c.skill_1 = 1 /\ c.skill_2 = 2 /\ c.co_occurrence_count = 2

\* C11: after calculate_combinations every row has skill_1 < skill_2, and no
\* pair of skills is stored in both directions
C11_CanonicalOrder ==
    lastOp.op = "calculate_combinations" =>
        /\ \A c \in combinations : c.skill_1 < c.skill_2
        /\ \A c, d \in combinations :
              ~(c.skill_1 = d.skill_2 /\ c.skill_2 = d.skill_1)

\* every job lists Python and Django: the row is (1, 2), never (2, 1)
C11_Witness ==
    /\ lastOp.op = "calculate_combinations"
    /\ \A j \in jobPostings : j.is_active /\ JobSkillIds(j.id) = {1, 2}
    /\ \E c \in combinations : c.skill_1 = 1 /\ c.skill_2 = 2

ReturnedCount(op) == op.ret.gap_analysis_id

\* C12: a second calculate_combinations over the same job data leaves the same
\* rows and returns the same count; the count returned is the number of rows
\* in the table, and no row of an earlier run is left in it
C12_CalculateTwice ==
    /\ [](lastOp.op = "calculate_combinations" =>
            /\ ReturnedCount(lastOp) = Cardinality(combinations)
            /\ \A c \in combinations : c.co_occurrence_count <= NumJobs)
    /\ [][(lastOp'.op = "calculate_combinations" /\ lastOp'.repeat) =>
            /\ combinations' = combinations
            /\ ReturnedCount(lastOp') = ReturnedCount(lastOp)]_vars

\* a second run over job data with one pair listed twice
C12_Witness ==
    /\ lastOp.op = "calculate_combinations"
    /\ lastOp.repeat
    /\ ReturnedCount(lastOp) = 1
    /\ combinations # {}
    /\ combinations # StaleCombinations

\* C13: every row has a positive denominator, not smaller than the
\* co-occurrence count, so 0 <= correlation_score <= 1
C13_ScoreInUnitInterval ==
    lastOp.op = "calculate_combinations" =>
        \A c \in combinations :
            /\ c.correlation_score.den > 0
            /\ c.correlation_score.den >= c.co_occurrence_count
            /\ c.correlation_score.num >= 0
            /\ c.correlation_score.num <= c.correlation_score.den

\* a row written while an inactive posting lists one of its skills
C13_Witness ==
    /\ lastOp.op = "calculate_combinations"
    /\ \E c \in combinations, j \in jobPostings :
          /\ ~j.is_active
          /\ c.skill_1 \in JobSkillIds(j.id)
          /\ c.correlation_score.num < c.correlation_score.den

\* the postings of a population that list the skill
Listing(pop, s) == {j \in pop : s \in JobSkillIds(j)}

Jaccard(pop, a, b) ==
    [num |-> Cardinality(Listing(pop, a) \cap Listing(pop, b)),
     den |-> Cardinality(Listing(pop, a) \cup Listing(pop, b))]

AllJobs == {j.id : j \in jobPostings}

SameFraction(f, g) == f.num * g.den = g.num * f.den

\* C14: the score of every row is the Jaccard similarity of the two skills'
\* posting sets, intersection and union taken over one population of postings
\* (the active postings, or all postings)
C14_Jaccard ==
    lastOp.op = "calculate_combinations" =>
        \A c \in combinations :
            \/ SameFraction(c.correlation_score,
                            Jaccard(ActiveJobs, c.skill_1, c.skill_2))
            \/ SameFraction(c.correlation_score,
                            Jaccard(AllJobs, c.skill_1, c.skill_2))

----------------------------------------------------------------------------
(* Properties of CareerDiscoveryService *)

Range(seq) == {seq[i] : i \in DOMAIN seq}

\* the options of the quiz that a response selects: those of the question
\* with the response's id whose value is the response's answer
OptionsNamedBy(response) ==
    {o \in UNION {Range(q.options) :
                    q \in {x \in Range(CAREER_DISCOVERY_QUESTIONS) :
                              x.id = response.question_id}} :
        o.value = response.answer_value}

\* what one response gives a role, in halves
Contribution(response, role) ==
    IF OptionsNamedBy(response) = {} THEN 0
    ELSE LET o == CHOOSE x \in OptionsNamedBy(response) : TRUE
             w == IF response.question_id \in DOMAIN ROLE_SCORING_WEIGHTS
                  THEN ROLE_SCORING_WEIGHTS[response.question_id]
                  ELSE 1
         IN  (IF role \in Range(o.related_roles) THEN 2 * w ELSE 0)
             + (IF role \in Range(o.boosts) THEN w ELSE 0)

RECURSIVE SumOfContributions(_, _)
SumOfContributions(n, role) ==
    IF n = 0 THEN 0
    ELSE SumOfContributions(n - 1, role) + Contribution(responses[n], role)

RolesNamedBy(response) ==
    UNION {Range(o.related_roles) \cup Range(o.boosts) :
              o \in OptionsNamedBy(response)}

ScoredRoles == UNION {RolesNamedBy(responses[i]) : i \in DOMAIN responses}

ServiceCalled == lastOp.op \in {"calculate_role_scores", "get_recommended_roles"}

\* C15: the list holds one entry for every role that a selected option names,
\* and no other; its score is the sum over the responses of the full weight
\* where the role is a related role and of half the weight where it is a boost;
\* a response with an unknown question or answer adds nothing
C15_RoleScores ==
    ServiceCalled =>
        /\ {sortedRoles[i].role : i \in DOMAIN sortedRoles} = ScoredRoles
        /\ Len(sortedRoles) = Cardinality(ScoredRoles)
        /\ \A i \in DOMAIN sortedRoles :
              sortedRoles[i].score2 =
                  SumOfContributions(Len(responses), sortedRoles[i].role)

\* backend_systems (weight 50) and startup (weight 3, boost 1.5): DevOps
\* Engineer scores 51.5, Backend Developer 50, Full Stack Developer 1.5
C15_Witness ==
    /\ lastOp.op = "calculate_role_scores"
    /\ responses =
          <<[question_id |-> "primary_interest", answer_value |-> "backend_systems"],
            [question_id |-> "work_environment", answer_value |-> "startup"]>>
    /\ \E i \in DOMAIN sortedRoles :
          sortedRoles[i].role = "DevOps Engineer" /\ sortedRoles[i].score2 = 103
    /\ \E i \in DOMAIN sortedRoles :
          sortedRoles[i].role = "Full Stack Developer" /\ sortedRoles[i].score2 = 3

NamedInOrder(response) ==
    IF OptionsNamedBy(response) = {} THEN <<>>
    ELSE LET o == CHOOSE x \in OptionsNamedBy(response) : TRUE
         IN  o.related_roles \o o.boosts

First(S) == CHOOSE i \in S : \A k \in S : i <= k

FirstResponseNaming(role) ==
    First({i \in DOMAIN responses : role \in RolesNamedBy(responses[i])})

PlaceIn(seq, role) == First({i \in DOMAIN seq : seq[i] = role})

\* role a received its first score before role b did
ScoredBefore(a, b) ==
    \/ FirstResponseNaming(a) < FirstResponseNaming(b)
    \/ /\ FirstResponseNaming(a) = FirstResponseNaming(b)
       /\ PlaceIn(NamedInOrder(responses[FirstResponseNaming(a)]), a)
            < PlaceIn(NamedInOrder(responses[FirstResponseNaming(a)]), b)

\* C16: the list is sorted by non-increasing score, roles of equal score in
\* the order of their first score; get_recommended_roles returns at most top_n
\* entries, the front of that list in its order
C16_SortedStable ==
    /\ ServiceCalled =>
          \A i, k \in DOMAIN sortedRoles :
              i < k =>
                 /\ sortedRoles[i].score2 >= sortedRoles[k].score2
                 /\ sortedRoles[i].score2 = sortedRoles[k].score2 =>
                       ScoredBefore(sortedRoles[i].role, sortedRoles[k].role)
    /\ lastOp.op = "get_recommended_roles" =>
          /\ Len(recommendations) <= lastOp.item
          /\ Len(recommendations) <= Len(sortedRoles)
          /\ \A i \in DOMAIN recommendations :
                /\ recommendations[i].role_name = sortedRoles[i].role
                /\ recommendations[i].match_score2 = sortedRoles[i].score2

\* work_style alone, then work_with_data: the roles get their first score in
\* the order Backend, DevOps, Data Scientist, Data Analyst, BI Analyst; the
\* list is Data Scientist 55, Data Analyst 50, BI Analyst 50, Backend 5,
\* DevOps 5, and top_n = 3 returns its first three
C16_Witness ==
    /\ lastOp.op = "get_recommended_roles"
    /\ lastOp.item = 3
    /\ Len(responses) = 2
    /\ responses[1].question_id = "work_style"
    /\ Len(sortedRoles) = 5
    /\ Len(recommendations) = 3
    /\ sortedRoles[1].role = "Data Scientist"
    /\ sortedRoles[2].role = "Data Analyst"
    /\ sortedRoles[2].score2 = sortedRoles[3].score2
    /\ sortedRoles[4].role = "Backend Developer"
    /\ sortedRoles[4].score2 = sortedRoles[5].score2

----------------------------------------------------------------------------
(* Properties of the status of roadmap items and user skills *)

ApiItemOperations ==
    {"start", "complete", "complete_error", "reset", "partial_update",
     "partial_update_error"}

ItemTransitions ==
    {<<"pending", "in_progress">>, <<"in_progress", "completed">>,
     <<"in_progress", "pending">>}

\* C17: an API operation on a roadmap item changes its status only along
\* pending -> in_progress, in_progress -> completed, in_progress -> pending
C17_ItemTransitions ==
    [][lastOp'.op \in ApiItemOperations =>
          \A it \in roadmapItems, nx \in roadmapItems' :
              (nx.id = it.id /\ nx.status # it.status) =>
                  <<it.status, nx.status>> \in ItemTransitions]_vars

\* C18: when an item becomes completed, the roadmap owner's UserSkill for the
\* item's skill exists and is learned right after the operation
C18_CompletedIsLearned ==
    [][\A it \in roadmapItems, nx \in roadmapItems' :
          (nx.id = it.id /\ it.status # "completed" /\ nx.status = "completed") =>
              \E us \in userSkills' :
                  /\ us.user = RoadmapOwner(it.roadmap)
                  /\ us.skill = it.skill
                  /\ us.status = "learned"]_vars

StatusRank(st) ==
    IF st = "not_started" THEN 1 ELSE IF st = "in_progress" THEN 2 ELSE 3

\* C19: the status of a UserSkill never moves backward along
\* not_started -> in_progress -> learned
C19_StatusForward ==
    [][\A us \in userSkills, nx \in userSkills' :
          (nx.user = us.user /\ nx.skill = us.skill) =>
              StatusRank(nx.status) >= StatusRank(us.status)]_vars

----------------------------------------------------------------------------
(* Properties of a failing analysis or generation *)

\* C20: when a write fails inside analyze_user_for_role or generate_roadmap,
\* the SkillGapAnalysis, MissingSkill, UserRecommendedRole, LearningRoadmap and
\* RoadmapItem rows are the rows of before the call
C20_AllOrNothing ==
    [][lastOp'.op \in {"analyze_failed", "generate_failed"} =>
          /\ gapAnalyses' = gapAnalyses
          /\ missingSkills' = missingSkills
          /\ recommended' = recommended
          /\ roadmaps' = roadmaps
          /\ roadmapItems' = roadmapItems]_vars

----------------------------------------------------------------------------
(* Properties of the edge cases of the analysis and of the roadmap rows *)

\* C21: the analysis of a role without required skills returns match 0,
\* not_ready, no missing skill and 0 weeks, and leaves one SkillGapAnalysis
\* and one UserRecommendedRole with these values and no MissingSkill row
C21_NoRequiredSkills ==
    (Analyzed /\ RequiredRows(lastOp.role) = {}) =>
        /\ FracEq(lastOp.ret.match_percentage, 0)
        /\ lastOp.ret.readiness_level = "not_ready"
        /\ lastOp.ret.missing_skills_count = 0
        /\ lastOp.ret.matching_skills_count = 0
        /\ lastOp.ret.estimated_learning_weeks = 0
        /\ Cardinality(ExistingGap(lastOp.user, lastOp.role)) = 1
        /\ \A g \in ExistingGap(lastOp.user, lastOp.role) :
              /\ FracEq(g.overall_match_percentage, 0)
              /\ g.readiness_level = "not_ready"
              /\ g.estimated_learning_time_weeks = 0
        /\ Cardinality(RecommendedOf(lastOp.user, lastOp.role)) = 1
        /\ \A x \in RecommendedOf(lastOp.user, lastOp.role) :
              /\ FracEq(x.match_percentage, 0)
              /\ x.missing_skills_count = 0
        /\ MissingRowsOf(lastOp.user, lastOp.role) = {}

\* a user with learned skills analysed for a role that requires nothing
C21_Witness ==
    /\ Analyzed
    /\ roleRequired = {}
    /\ \E us \in userSkills : us.status = "learned"
    /\ gapAnalyses # {}
    /\ recommended # {}

RoadmapIdsOf(u, r) == {rm.id : rm \in ExistingRoadmap(u, r)}

\* C22: a (user, role) pair has at most one LearningRoadmap, and
\* generate_roadmap on a pair that has one keeps that row
C22_OneRoadmapPerPair ==
    /\ [](\A u \in Users, r \in Roles : Cardinality(ExistingRoadmap(u, r)) <= 1)
    /\ [][\A u \in Users, r \in Roles :
             (/\ lastOp'.op = "generate"
              /\ lastOp'.user = u
              /\ lastOp'.role = r
              /\ ExistingRoadmap(u, r) # {})
                => RoadmapIdsOf(u, r)' = RoadmapIdsOf(u, r)]_vars

\* a roadmap made inactive by POST /roadmaps/, then generated for the same pair
C22_Witness ==
    /\ ops = 2
    /\ lastOp.op = "generate"
    /\ lastOp.repeat
    /\ Cardinality(roadmaps) = 1
    /\ \A rm \in roadmaps : ~rm.is_active /\ ItemsOf(rm.id) # {}

RECURSIVE SumOfItemWeeks(_)
SumOfItemWeeks(items) ==
    IF items = {} THEN 0
    ELSE LET it == CHOOSE x \in items : TRUE
         IN  it.estimated_duration_weeks + SumOfItemWeeks(items \ {it})

\* C24: after generate_roadmap the estimated_completion_date is W weeks after
\* the day of the generation (day 0), W being the estimated_learning_weeks the
\* analysis of the call returned, and W is the sum of the weeks of the items
C24_CompletionDate ==
    lastOp.op = "generate" =>
        \A rm \in ExistingRoadmap(lastOp.user, lastOp.role) :
            /\ rm.estimated_completion_date = 7 * lastOp.ret.estimated_learning_weeks
            /\ lastOp.ret.estimated_learning_weeks = SumOfItemWeeks(ItemsOf(rm.id))

\* Python learned: Django (2 weeks) and SQL (1 week) are missing, on a roadmap
\* that POST /roadmaps/ made without a date
C24_Witness ==
    /\ ops = 2
    /\ lastOp.op = "generate"
    /\ lastOp.repeat
    /\ lastOp.ret.estimated_learning_weeks = 3
    /\ \E rm \in ExistingRoadmap(lastOp.user, lastOp.role) :
          /\ rm.estimated_completion_date = 21
          /\ Cardinality(ItemsOf(rm.id)) = 2

ActiveRoadmaps(u) == {rm \in roadmaps : rm.user = u /\ rm.is_active}

\* C30: a user has at most one active LearningRoadmap
C30_OneActiveRoadmap ==
    \A u \in Users : Cardinality(ActiveRoadmaps(u)) <= 1

\* the roadmap an operation worked on: that of its item, or that of its pair
RoadmapsOfOperation(op) ==
    IF op.op = "generate" THEN ExistingRoadmap(op.user, op.role)
    ELSE {rm \in roadmaps : \E it \in roadmapItems :
                                it.id = op.item /\ it.roadmap = rm.id}

\* C29: after a completed start, complete, reset, mark_completed or
\* generate_roadmap the completion_percentage of the roadmap is 100 times
\* its completed items over its items, and 0 when it has no items
C29_CompletionPercentage ==
    lastOp.op \in {"start", "complete", "reset", "mark_completed", "generate"} =>
        \A rm \in RoadmapsOfOperation(lastOp) :
            SameFraction(rm.completion_percentage,
                         CompletionPercentage(ItemsOf(rm.id)))

\* what a run over the job data of this state leaves in the table
FinalRows == CombinationRows

\* C23: a read taken between the statements of a run of
\* calculate_combinations holds only rows of the final result, and a read
\* taken after the run holds the final rows of its skill, all of them
C23_ReadsDuringRun ==
    /\ seen.pc = "creating" => seen.rows \subseteq FinalRows
    /\ seen.pc = "done" =>
          seen.rows = {c \in FinalRows : c.skill_1 = seen.skill \/ c.skill_2 = seen.skill}

\* a read in the middle of a run that began on a table with a stale row:
\* one of the two final rows of the skill is there, the other not yet
C23_Witness ==
    /\ seen.pc = "creating"
    /\ seen.rows # {}
    /\ seen.rows # {c \in FinalRows : c.skill_1 = seen.skill \/ c.skill_2 = seen.skill}
    /\ StaleCombinations \cap FinalRows = {}

\* C25: scrape with max_vacancies = m > 0 returns at most m vacancies
C25_AtMostMaxVacancies ==
    (scraped.done /\ request.max_vacancies > 0) =>
        Len(scraped.vacancies) <= request.max_vacancies

\* the rows the send_message call under way has stored
StoredByCall == SubSeq(chatMessages, chat.before + 1, Len(chatMessages))

SendersOf(messages) == [i \in 1..Len(messages) |-> messages[i].sender_type]

\* C26: send_message calls the model at most max_iterations = 5 times (after
\* the fifth call it is not in its loop any more), and when it has returned
\* it has stored one user message and then one bot message
C26_SendMessage ==
    /\ chat.llm_calls <= max_iterations
    /\ chat.pc = "loop" => chat.llm_calls < max_iterations
    /\ chat.pc = "loop" => SendersOf(StoredByCall) = <<"user">>
    /\ chat.pc = "returned" => SendersOf(StoredByCall) = <<"user", "bot">>

\* five rounds of tool calls, and the apology saved after them, in a session
\* that held an exchange already
C26_Witness ==
    /\ chat.pc = "returned"
    /\ chat.llm_calls = max_iterations
    /\ chat.before = 2
    /\ chatMessages[Len(chatMessages)].message_text = "max_iterations"
    /\ Len(chat.tools_used_list) >= max_iterations

Loaded(e) == loadLog[e] # NoVacancy

JobsOfId(e) == {j \in jobPostings : j.external_id = e /\ j.source_platform = "hh.uz"}

LinkedNames(job_id) ==
    {Lower(l.skill) : l \in {x \in jobSkills : x.job_posting = job_id}}

\* C27: one JobPosting per (external_id, source_platform) at most; the row
\* of a vacancy has is_active = not archived of its last load that did not
\* fail, and its links are the skills of that load (an empty name is no
\* skill); a vacancy never loaded without failing has no row
C27_LastLoad ==
    \A e \in DOMAIN loadLog :
        /\ Cardinality(JobsOfId(e)) <= 1
        /\ ~Loaded(e) => JobsOfId(e) = {}
        /\ Loaded(e) =>
              \E j \in JobsOfId(e) :
                  /\ j.is_active = ~loadLog[e].archived
                  /\ LinkedNames(j.id) = loadLog[e].skill_names \ {""}

RaceOver ==
    /\ workers # <<>>
    /\ \A w \in DOMAIN workers : workers[w].pc \in {"done", "failed"}

\* the MissingSkill rows of the pair's analyses for one skill
MissingRowCount(u, r, s) ==
    BagCardinality([m \in {x \in DOMAIN missingSkills :
                             /\ x.skill = s
                             /\ x.gap_analysis \in {g.id : g \in ExistingGap(u, r)}}
                      |-> missingSkills[m]])

\* C28: when the requests that analysed the pair side by side have ended,
\* none of them has failed, the pair has one SkillGapAnalysis row and one
\* MissingSkill row for each missing skill, and no later call fails
C28_SideBySide ==
    /\ lastOp.op # "analyze_error"
    /\ RaceOver =>
          LET u == workers[1].user
              r == workers[1].role
          IN  /\ \A w \in DOMAIN workers : workers[w].pc = "done"
              /\ Cardinality(ExistingGap(u, r)) = 1
              /\ \A s \in MissingSkillIds(u, r) : MissingRowCount(u, r, s) = 1

====
